---------------------------- MODULE Spec2Model ----------------------------
(***************************************************************************)
(* Order intake and settlement pipeline of DEX-Trader-Backend.             *)
(*                                                                         *)
(* Two order handlers are modelled: the settling handler                   *)
(* (src/lambda/assetAdmin/index.ts:311-574) and the plain matcher          *)
(* (src/lambda/matcher/index.ts:46-242), together with the pure settlement *)
(* calculator (parseTradingPair, toBigInt, calculateBalanceUpdates).       *)
(*                                                                         *)
(* JavaScript strings are sequences of one-character strings, bigints are  *)
(* sign/magnitude decimal digit sequences (TLC integers are 32 bit wide,   *)
(* the amounts are not).                                                   *)
(***************************************************************************)
EXTENDS Integers, Sequences, FiniteSets, TLC

\* The state of the pipeline; Init and the handlers follow the pure functions.
VARIABLES
  gen,       \* the invocation of the mock-data generator
  admin,     \* the invocation of the asset registration handler
  connections, \* the CONNECTIONS_TABLE items
  inbox,     \* the workload: invocation -> request
  pc,        \* invocation -> position in the handler
  local,     \* invocation -> the handler's local variables
  log,       \* invocation -> the steps attempted so far, each with its outcome
  notifs,    \* invocation -> the payloads handed to sendToConnection, with the delivery outcome
  response,  \* invocation -> the value the handler returned
  orders,    \* the ORDERBOOK_TABLE items
  trades,    \* the TRADES_TABLE items
  queue,     \* the messages on the trade queue
  chain,     \* the settleBatch transactions the contract has seen
  height,    \* block height of the chain
  calcIn,    \* settlement calculator run on its own: the order
  calcOut,   \* settlement calculator run on its own: the result
  ep,        \* event processor: the batch, the connections table, the position
  topic,     \* the messages published to the notification topic
  pushes,    \* the payloads posted to connections by the event processor and the price feed
  feed       \* price feed: the messages built, the connections, the position on each

\* the state of the order pipeline and the state of the two broadcasting handlers
pipeline == <<inbox, pc, local, log, notifs, response, orders, trades, queue, chain,
              height, calcIn, calcOut>>

events == <<ep, topic, pushes, feed>>

beside == <<gen, admin, connections>>

(***************************************************************************)
(* Strings                                                                 *)
(***************************************************************************)
LowerAlpha == <<"a","b","c","d","e","f","g","h","i","j","k","l","m",
                "n","o","p","q","r","s","t","u","v","w","x","y","z">>

UpperAlpha == <<"A","B","C","D","E","F","G","H","I","J","K","L","M",
                "N","O","P","Q","R","S","T","U","V","W","X","Y","Z">>

DigitChars == <<"0","1","2","3","4","5","6","7","8","9">>

IsIn(c, alphabet) == \E i \in 1..Len(alphabet) : alphabet[i] = c

IndexIn(c, alphabet) == CHOOSE i \in 1..Len(alphabet) : alphabet[i] = c

\* String.prototype.toUpperCase, one character
UpperChar(c) == IF IsIn(c, LowerAlpha) THEN UpperAlpha[IndexIn(c, LowerAlpha)] ELSE c

\* String.prototype.toLowerCase, one character
LowerChar(c) == IF IsIn(c, UpperAlpha) THEN LowerAlpha[IndexIn(c, UpperAlpha)] ELSE c

toUpperCase(s) == [i \in 1..Len(s) |-> UpperChar(s[i])]

toLowerCase(s) == [i \in 1..Len(s) |-> LowerChar(s[i])]

\* String.prototype.trim (the only white space of the inputs is the blank)
trim(s) ==
  IF \A i \in 1..Len(s) : s[i] = " " THEN <<>>
  ELSE LET first == CHOOSE i \in 1..Len(s) : s[i] # " " /\ \A j \in 1..(i-1) : s[j] = " "
           last  == CHOOSE i \in 1..Len(s) : s[i] # " " /\ \A j \in (i+1)..Len(s) : s[j] = " "
       IN  SubSeq(s, first, last)

\* String.prototype.includes for a one-character separator
includes(s, sep) == \E i \in 1..Len(s) : s[i] = sep

\* Positions of the separator in s, and the first two parts of s.split(sep)
SepPositions(s, sep) == {i \in 1..Len(s) : s[i] = sep}

FirstSep(s, sep) == CHOOSE i \in SepPositions(s, sep) : \A j \in SepPositions(s, sep) : i <= j

SplitFirst(s, sep) == SubSeq(s, 1, FirstSep(s, sep) - 1)

SplitSecond(s, sep) ==
  LET p    == FirstSep(s, sep)
      rest == SubSeq(s, p + 1, Len(s))
  IN  IF includes(rest, sep) THEN SubSeq(rest, 1, FirstSep(rest, sep) - 1) ELSE rest

(***************************************************************************)
(* bigint: [neg, mag], mag the decimal digits, most significant first,     *)
(* without leading zeros; zero is [neg |-> FALSE, mag |-> <<0>>].          *)
(***************************************************************************)
RECURSIVE StripZeros(_)
StripZeros(d) ==
  IF Len(d) <= 1 THEN (IF Len(d) = 0 THEN <<0>> ELSE d)
  ELSE IF d[1] = 0 THEN StripZeros(Tail(d)) ELSE d

BigOf(neg, digits) ==
  LET m == StripZeros(digits)
  IN  [neg |-> neg /\ m # <<0>>, mag |-> m]

BigZero == [neg |-> FALSE, mag |-> <<0>>]

\* unary minus on a bigint (-0n is 0n)
BigNeg(a) == BigOf(~a.neg, a.mag)

Reverse(s) == [i \in 1..Len(s) |-> s[Len(s) + 1 - i]]

RECURSIVE SumProducts(_, _, _, _)
\* sum of a[i] * b[k + 1 - i] over i = from..Len(a), digits least significant first
SumProducts(a, b, k, from) ==
  IF from > Len(a) THEN 0
  ELSE (IF k + 1 - from >= 1 /\ k + 1 - from <= Len(b) THEN a[from] * b[k + 1 - from] ELSE 0)
       + SumProducts(a, b, k, from + 1)

RECURSIVE CarryOut(_, _, _, _, _)
\* digits (least significant first) of the product, column k onwards
CarryOut(a, b, k, carry, n) ==
  IF k > n THEN (IF carry = 0 THEN <<>> ELSE <<carry % 10>> \o CarryOut(a, b, k, carry \div 10, n))
  ELSE LET t == SumProducts(a, b, k, 1) + carry
       IN  <<t % 10>> \o CarryOut(a, b, k + 1, t \div 10, n)

\* a * b on magnitudes
MagMul(x, y) ==
  LET a == Reverse(x)
      b == Reverse(y)
  IN  StripZeros(Reverse(CarryOut(a, b, 1, 0, Len(a) + Len(b) - 1)))

\* a * b
BigMul(a, b) == BigOf(a.neg # b.neg, MagMul(a.mag, b.mag))

\* 10n ** BigInt(k)
Pow10Big(k) == [neg |-> FALSE, mag |-> <<1>> \o [i \in 1..k |-> 0]]

\* a / 10^k, bigint division: the quotient is truncated toward zero
BigDivPow10(a, k) ==
  IF Len(a.mag) <= k THEN BigZero
  ELSE BigOf(a.neg, SubSeq(a.mag, 1, Len(a.mag) - k))

\* BigInt.prototype.toString
BigToString(a) ==
  (IF a.neg THEN <<"-">> ELSE <<>>) \o [i \in 1..Len(a.mag) |-> DigitChars[a.mag[i] + 1]]


(***************************************************************************)
(* JavaScript values of the payload fields: [t, s] with t the typeof and s *)
(* the text (of a string, or Number.prototype.toString of a number).       *)
(***************************************************************************)
Undefined == [t |-> "undefined", s |-> <<>>]

Str(chars) == [t |-> "string", s |-> chars]

Num(chars) == [t |-> "number", s |-> chars]

\* ToBoolean: undefined, "" and 0 are falsy
Truthy(v) ==
  \/ v.t = "string" /\ v.s # <<>>
  \/ v.t = "number" /\ v.s # <<"0">>

\* value.toString() of a truthy field
ToStringOf(v) == v.s

\* an Error with its message: a fixed text and the interpolated part
Err(text, arg) == [text |-> text, arg |-> arg]

(***************************************************************************)
(* ethers.parseUnits(value, decimals), that is FixedNumber.fromString: an  *)
(* optional minus, digits, an optional point, digits; at least one digit;  *)
(* fraction digits beyond `decimals` must be zeros; the result is          *)
(* BigInt(sign + whole + padded fraction). The 512 bit width check of the  *)
(* format cannot fail on the amounts used here.                            *)
(***************************************************************************)
DigitsOf(chars) == [i \in 1..Len(chars) |-> IndexIn(chars[i], DigitChars) - 1]

AllDigits(chars) == \A i \in 1..Len(chars) : IsIn(chars[i], DigitChars)

parseUnits(text, decimals) ==
  LET neg   == Len(text) > 0 /\ text[1] = "-"
      body  == IF neg THEN Tail(text) ELSE text
      dot   == includes(body, ".")
      whole == IF dot THEN SplitFirst(body, ".") ELSE body
      frac  == IF dot THEN SubSeq(body, FirstSep(body, ".") + 1, Len(body)) ELSE <<>>
  IN  IF ~(AllDigits(whole) /\ AllDigits(frac) /\ Len(whole) + Len(frac) > 0)
        THEN [ok |-> FALSE, error |-> Err("invalid FixedNumber string value", text)]
      ELSE IF \E i \in (decimals + 1)..Len(frac) : frac[i] # "0"
        THEN [ok |-> FALSE, error |-> Err("too many decimals for format", text)]
      ELSE LET padded == [i \in 1..decimals |-> IF i <= Len(frac) THEN frac[i] ELSE "0"]
           IN  [ok |-> TRUE, value |-> BigOf(neg, DigitsOf(whole \o padded))]

\* toBigInt(value, decimals)
toBigInt(value, decimals) ==
  IF value.t \in {"number", "string"}
    THEN parseUnits(ToStringOf(value), decimals)
    ELSE [ok |-> FALSE, error |-> Err("value must be a string", <<>>)]

(***************************************************************************)
(* Asset registry and trading pair parser                                  *)
(***************************************************************************)
\* mutant: the underscore is not a separator
supportedPairSeparators_NoUnderscore == <<"/", "-">>

supportedPairSeparators == <<"/", "-", "_">>

assetMeta ==
  << [symbol |-> <<"U","S","D","T">>, decimals |-> 6],
     [symbol |-> <<"B","T","C">>,     decimals |-> 8],
     [symbol |-> <<"E","T","H">>,     decimals |-> 18],
     [symbol |-> <<"S","O","L">>,     decimals |-> 9],
     [symbol |-> <<"A","V","A","X">>, decimals |-> 18],
     [symbol |-> <<"L","I","N","K">>, decimals |-> 18],
     [symbol |-> <<"D","O","G","E">>, decimals |-> 8],
     [symbol |-> <<"S","U","I">>,     decimals |-> 9] >>

InAssetDecimals(sym) == \E i \in 1..Len(assetMeta) : assetMeta[i].symbol = sym

assetDecimals(sym) == assetMeta[CHOOSE i \in 1..Len(assetMeta) : assetMeta[i].symbol = sym].decimals

\* ethers.id: keccak256 of the text, an injective tag here
ethersId(text) == <<"keccak256", text>>

assetIds(sym) == ethersId(sym)

normalizeSymbol(symbol) ==
  LET normalized == toUpperCase(trim(symbol))
  IN  IF ~InAssetDecimals(normalized)
        THEN [ok |-> FALSE, error |-> Err("Unsupported asset symbol: ", normalized)]
        ELSE [ok |-> TRUE, value |-> normalized]

\* the first separator of supportedPairSeparators that the pair includes decides
parseTradingPair(pair) ==
  LET found == {k \in 1..Len(supportedPairSeparators) : includes(pair, supportedPairSeparators[k])}
      fail  == [ok |-> FALSE, error |-> Err("Unable to parse trading pair symbol: ", pair)]
  IN  IF found = {} THEN fail
      ELSE LET separator == supportedPairSeparators[CHOOSE k \in found : \A j \in found : k <= j]
               base      == SplitFirst(pair, separator)
               quote     == SplitSecond(pair, separator)
           IN  IF base = <<>> \/ quote = <<>> THEN fail
               ELSE LET b == normalizeSymbol(base)
                        q == normalizeSymbol(quote)
                    IN  IF ~b.ok THEN b
                        ELSE IF ~q.ok THEN q
                        ELSE [ok |-> TRUE, base |-> b.value, quote |-> q.value]

(***************************************************************************)
(* Settlement calculator                                                   *)
(***************************************************************************)
BUY == <<"B","U","Y">>

SELL == <<"S","E","L","L">>

\* order.side || "BUY"
SideOrBuy(order) == IF Truthy(order.side) THEN ToStringOf(order.side) ELSE BUY

\* OPPOSING_WALLET_ADDRESS of the environment
opposingWalletAddress == <<"0","x","f","e","e">>

\* const side = (order.side || "BUY").toString().toUpperCase(); isBuy = side !== "SELL"
isBuyOf(order) == toUpperCase(SideOrBuy(order)) # SELL

\* mutant: the product is divided by the quote asset's scale
quoteAmountOf_QuoteScale(baseAmount, priceAmount, baseDecimals, quoteDecimals) ==
  BigDivPow10(BigMul(baseAmount, priceAmount), quoteDecimals)

\* (baseAmount * priceAmount) / baseScale with baseScale = 10n ** BigInt(baseDecimals)
quoteAmountOf(baseAmount, priceAmount, baseDecimals, quoteDecimals) ==
  BigDivPow10(BigMul(baseAmount, priceAmount), baseDecimals)

Update(account, assetId, amount) ==
  [account |-> account, assetId |-> assetId, amount |-> BigToString(amount)]

buyerBalanceUpdates(isBuy, buyerAddress, baseSymbol, quoteSymbol, baseAmount, quoteAmount) ==
  << Update(buyerAddress, assetIds(quoteSymbol), IF isBuy THEN BigNeg(quoteAmount) ELSE quoteAmount),
     Update(buyerAddress, assetIds(baseSymbol), IF isBuy THEN baseAmount ELSE BigNeg(baseAmount)) >>

\* mutant: the seller's base amount carries the buyer's sign
sellerBalanceUpdates_BaseSign(isBuy, sellerAddress, baseSymbol, quoteSymbol, baseAmount, quoteAmount) ==
  << Update(sellerAddress, assetIds(quoteSymbol), IF isBuy THEN quoteAmount ELSE BigNeg(quoteAmount)),
     Update(sellerAddress, assetIds(baseSymbol), IF isBuy THEN baseAmount ELSE BigNeg(baseAmount)) >>

sellerBalanceUpdates(isBuy, sellerAddress, baseSymbol, quoteSymbol, baseAmount, quoteAmount) ==
  << Update(sellerAddress, assetIds(quoteSymbol), IF isBuy THEN quoteAmount ELSE BigNeg(quoteAmount)),
     Update(sellerAddress, assetIds(baseSymbol), IF isBuy THEN BigNeg(baseAmount) ELSE baseAmount) >>

calculateBalanceUpdates(order) ==
  LET pair == parseTradingPair(ToStringOf(order.symbol))
  IN  IF ~pair.ok THEN [ok |-> FALSE, error |-> pair.error]
      ELSE
      LET baseSymbol    == pair.base
          quoteSymbol   == pair.quote
          baseDecimals  == assetDecimals(baseSymbol)
          quoteDecimals == assetDecimals(quoteSymbol)
          isBuy         == isBuyOf(order)
          base          == toBigInt(order.qty, baseDecimals)
          price         == toBigInt(order.price, quoteDecimals)
      IN  IF ~base.ok THEN [ok |-> FALSE, error |-> base.error]
          ELSE IF ~price.ok THEN [ok |-> FALSE, error |-> price.error]
          ELSE
          LET baseAmount    == base.value
              priceAmount   == price.value
              quoteAmount   == quoteAmountOf(baseAmount, priceAmount, baseDecimals, quoteDecimals)
              buyerAddress  == IF isBuy THEN ToStringOf(order.owner) ELSE opposingWalletAddress
              sellerAddress == IF isBuy THEN opposingWalletAddress ELSE ToStringOf(order.owner)
          IN  [ok |-> TRUE,
               balanceUpdates |->
                 buyerBalanceUpdates(isBuy, buyerAddress, baseSymbol, quoteSymbol,
                                     baseAmount, quoteAmount)
                 \o sellerBalanceUpdates(isBuy, sellerAddress, baseSymbol, quoteSymbol,
                                         baseAmount, quoteAmount),
               baseSymbol  |-> baseSymbol,
               quoteSymbol |-> quoteSymbol,
               baseAmount  |-> baseAmount,
               quoteAmount |-> quoteAmount]

(***************************************************************************)
(* Requests.  A request is [handler, conn, body]: the handler it is routed *)
(* to, how its WebSocket connection behaves, and event.body.               *)
(*   conn "none"  : requestContext.connectionId is empty                   *)
(*        "open"  : every PostToConnection succeeds                        *)
(*        "gone"  : every PostToConnection fails with status 410           *)
(*        "flaky" : each PostToConnection succeeds or fails on its own     *)
(*   body.kind "badjson" : a string that JSON.parse rejects                *)
(*             "null"    : no body, or the JSON text null                  *)
(*             "object"  : an object with the fields below                 *)
(***************************************************************************)
Chars(str) ==
  CASE str = "BTC/USDT"  -> <<"B","T","C","/","U","S","D","T">>
    [] str = "btc-usdt"  -> <<"b","t","c","-","u","s","d","t">>
    [] str = "BTC"       -> <<"B","T","C">>
    [] str = "XRP/USDT"  -> <<"X","R","P","/","U","S","D","T">>
    [] str = "50000"     -> <<"5","0","0","0","0">>
    [] str = "-5"        -> <<"-","5">>
    [] str = "abc"       -> <<"a","b","c">>
    [] str = "0"         -> <<"0">>
    [] str = "0.01"      -> <<"0",".","0","1">>
    [] str = "0xabc"     -> <<"0","x","a","b","c">>
    [] str = "limit"     -> <<"l","i","m","i","t">>
    [] str = "market"    -> <<"m","a","r","k","e","t">>
    [] str = "MARKET"    -> <<"M","A","R","K","E","T">>
    [] str = "stop"      -> <<"s","t","o","p">>
    [] str = "SELL"      -> SELL
    [] str = "sell"      -> <<"s","e","l","l">>
    [] str = "BUY"       -> BUY
    [] str = "hold"      -> <<"h","o","l","d">>

Body(kind, symbol, price, qty, owner, type, side) ==
  [kind |-> kind, symbol |-> symbol, price |-> price, qty |-> qty,
   owner |-> owner, type |-> type, side |-> side]

BadJson == Body("badjson", Undefined, Undefined, Undefined, Undefined, Undefined, Undefined)

NullBody == Body("null", Undefined, Undefined, Undefined, Undefined, Undefined, Undefined)

SymbolValues == {Undefined, Str(Chars("BTC/USDT")), Str(Chars("btc-usdt")),
                 Str(Chars("BTC")), Str(Chars("XRP/USDT"))}

\* 0.1234567 has more decimals than any quote asset of the requests
PriceValues == {Undefined, Num(Chars("50000")), Num(Chars("-5")), Str(Chars("abc")),
                Num(<<"0",".","1","2","3","4","5","6","7">>)}

QtyValues == {Undefined, Num(Chars("0.01")), Num(Chars("0"))}

OwnerValues == {Undefined, Str(Chars("0xabc"))}

TypeValues == {Undefined, Str(Chars("limit")), Str(Chars("MARKET")), Str(Chars("stop"))}

SideValues == {Undefined, Str(Chars("SELL")), Str(Chars("sell")), Str(Chars("hold"))}

ObjectBodies ==
  {Body("object", sy, pr, qt, ow, ty, sd) :
     sy \in SymbolValues, pr \in PriceValues, qt \in QtyValues,
     ow \in OwnerValues, ty \in TypeValues, sd \in SideValues}

Bodies == {BadJson, NullBody} \cup ObjectBodies

Handlers == {"settlement", "matcher"}

ConnKinds == {"none", "open", "gone", "flaky"}

Requests == [handler : Handlers, conn : ConnKinds, body : Bodies]

\* the requests of the concurrent workloads
MarketOrder == Body("object", Str(Chars("BTC/USDT")), Num(Chars("50000")), Num(Chars("0.01")),
                    Str(Chars("0xabc")), Str(Chars("MARKET")), Undefined)

LimitOrder == [MarketOrder EXCEPT !.type = Str(Chars("limit")), !.side = Str(Chars("SELL"))]

CoreRequests ==
  << [handler |-> "settlement", conn |-> "open", body |-> MarketOrder],
     [handler |-> "settlement", conn |-> "open", body |-> LimitOrder],
     [handler |-> "matcher",    conn |-> "open", body |-> LimitOrder] >>

\* number of concurrent invocations of a workload
MaxInv == 2

\* one request of any shape, or MaxInv concurrent core requests (as a multiset)
Workloads ==
  [{1} -> Requests]
  \cup {[i \in 1..MaxInv |-> CoreRequests[f[i]]] :
          f \in {g \in [1..MaxInv -> 1..Len(CoreRequests)] :
                   \A i \in 1..(MaxInv - 1) : g[i] <= g[i + 1]}}

(***************************************************************************)
(* Intake validation                                                       *)
(***************************************************************************)
\* typeof order.type === "string" ? order.type.toLowerCase() : undefined
orderTypeOf(order) ==
  IF order.type.t = "string" THEN Str(toLowerCase(order.type.s)) ELSE Undefined

TypeRejected(order) ==
  LET orderType == orderTypeOf(order)
  IN  \/ ~Truthy(orderType)
      \/ orderType.s # Chars("limit") /\ orderType.s # Chars("market")

\* the condition of the validation `if`
ValidationFails(order) ==
  \/ ~Truthy(order.symbol)
  \/ ~Truthy(order.price)
  \/ ~Truthy(order.qty)
  \/ ~Truthy(order.owner)
  \/ TypeRejected(order)

\* the `missing` array after filter(Boolean)
missing(order) ==
  (IF ~Truthy(order.symbol) THEN <<"symbol">> ELSE <<>>)
  \o (IF ~Truthy(order.price) THEN <<"price">> ELSE <<>>)
  \o (IF ~Truthy(order.qty) THEN <<"qty">> ELSE <<>>)
  \o (IF ~Truthy(order.owner) THEN <<"owner">> ELSE <<>>)
  \o (IF TypeRejected(order) THEN <<"type (limit or market)">> ELSE <<>>)

\* `Missing required fields: ${missing.join(", ")}`
ValidationMessage(order) == Err("Missing required fields: ", missing(order))


(***************************************************************************)
(* State                                                                   *)
(***************************************************************************)
vars == <<inbox, pc, local, log, notifs, response, orders, trades, queue, chain,
          height, calcIn, calcOut, ep, topic, pushes, feed, gen, admin, connections>>

Inv == DOMAIN inbox

NoId == <<"uuid", 0, 0>>

NoText == <<>>

NoComputation == [ok |-> FALSE, error |-> Err("", <<>>)]

NoReceipt == [hash |-> NoText, blockNumber |-> 0]

NoResponse == [statusCode |-> 0, error |-> Err("", <<>>), matched |-> FALSE]

InitLocal ==
  [orderId |-> NoId, tradeId |-> NoId, orderType |-> NoText, matched |-> FALSE,
   status |-> "", computation |-> NoComputation, receipt |-> NoReceipt]

NoOrder == Body("none", Undefined, Undefined, Undefined, Undefined, Undefined, Undefined)

PipelineIdle(load) ==
  /\ inbox = load
  /\ pc = [i \in DOMAIN load |-> "start"]
  /\ local = [i \in DOMAIN load |-> InitLocal]
  /\ log = [i \in DOMAIN load |-> <<>>]
  /\ notifs = [i \in DOMAIN load |-> <<>>]
  /\ response = [i \in DOMAIN load |-> NoResponse]
  /\ orders = {}
  /\ trades = {}
  /\ queue = {}
  /\ chain = {}
  /\ height = 0

\* the event processor and the price feed are not invoked
EpIdle == [records |-> <<>>, sockets |-> <<>>, scans |-> <<>>, rec |-> 0, phase |-> "idle",
           k |-> 0]

FeedIdle == [phase |-> "idle", ticker |-> {}, sockets |-> <<>>, messages |-> <<>>,
             conns |-> <<>>, at |-> <<>>, posted |-> {}, published |-> 0]

EventsIdle ==
  /\ ep = EpIdle
  /\ topic = <<>>
  /\ pushes = <<>>
  /\ feed = FeedIdle

(***************************************************************************)
(* Notification sink                                                       *)
(***************************************************************************)
\* what PostToConnection can do for a connection of the given behaviour
DeliveryOutcomes(conn) ==
  CASE conn = "none"  -> {"skipped"}
    [] conn = "open"  -> {"sent"}
    [] conn = "gone"  -> {"gone"}
    [] conn = "flaky" -> {"sent", "gone", "error"}

\* mutant: an error of mgmt.send other than 410 is thrown on
sendToConnectionThrows_OnError(outcome) == outcome = "error"

\* sendToConnection catches every error of mgmt.send: it never throws
sendToConnectionThrows(outcome) == FALSE

\* a payload: absent fields are "" (strings) or NoId
Payload(channel, type, status, message, orderId) ==
  [channel |-> channel, type |-> type, status |-> status, message |-> message,
   orderId |-> orderId]

\* sendToConnection(connectionId, payload): the payload as posted
sendToConnection(payload, outcome) ==
  [channel |-> payload.channel, type |-> payload.type, status |-> payload.status,
   message |-> payload.message, orderId |-> payload.orderId, delivery |-> outcome]

\* sendOrderMessage: { channel: "orders", ...payload }; a channel of the payload
\* overrides the default
sendOrderMessage(payload, outcome) ==
  sendToConnection([payload EXCEPT !.channel = IF payload.channel = "" THEN "orders"
                                                                      ELSE payload.channel],
                   outcome)

OrderError(message) == Payload("", "ORDER_ERROR", "ERROR", message, NoId)

Fixed(text) == Err(text, <<>>)

Step(name, ok) == [step |-> name, ok |-> ok, note |-> ""]

Notified(posted) == [step |-> "notify", ok |-> posted.delivery = "sent", note |-> posted.type]

\* mutant: every response has status 200
Respond_AlwaysOk(code, error, matched) == [statusCode |-> 200, error |-> error, matched |-> matched]

Respond(code, error, matched) == [statusCode |-> code, error |-> error, matched |-> matched]

InternalError(d) == sendOrderMessage(OrderError(Fixed("Internal server error")), d)

\* the outer catch of the handler: ORDER_ERROR "Internal server error", status 500
OuterCatch(i, steps, posts, d) ==
  /\ log' = [log EXCEPT ![i] = @ \o steps \o <<Notified(InternalError(d))>>]
  /\ notifs' = [notifs EXCEPT ![i] = @ \o posts \o <<InternalError(d)>>]
  /\ response' = [response EXCEPT ![i] = Respond(500, Fixed("Internal server error"), FALSE)]
  /\ pc' = [pc EXCEPT ![i] = "done"]

\* the steps just attempted, then a notification followed by `return`
NotifyAndReturn(i, steps, posted, resp) ==
  IF sendToConnectionThrows(posted.delivery)
    THEN OuterCatch(i, steps \o <<Notified(posted)>>, <<posted>>, posted.delivery)
    ELSE /\ log' = [log EXCEPT ![i] = @ \o steps \o <<Notified(posted)>>]
         /\ notifs' = [notifs EXCEPT ![i] = @ \o <<posted>>]
         /\ response' = [response EXCEPT ![i] = resp]
         /\ pc' = [pc EXCEPT ![i] = "done"]

\* the steps just attempted, then a notification after which the handler goes on at `next`
NotifyAndGo(i, steps, posted, next) ==
  IF sendToConnectionThrows(posted.delivery)
    THEN OuterCatch(i, steps \o <<Notified(posted)>>, <<posted>>, posted.delivery)
    ELSE /\ log' = [log EXCEPT ![i] = @ \o steps \o <<Notified(posted)>>]
         /\ notifs' = [notifs EXCEPT ![i] = @ \o <<posted>>]
         /\ response' = response
         /\ pc' = [pc EXCEPT ![i] = next]

\* a step without notification, after which the handler goes on at `next`
Go(i, steps, next) ==
  /\ log' = [log EXCEPT ![i] = @ \o steps]
  /\ pc' = [pc EXCEPT ![i] = next]
  /\ UNCHANGED <<notifs, response>>

\* a step that threw: the handler is in the catch block of the step, about to
\* await the post of its error
Fail(i, steps) == Go(i, steps, "reportError")

(***************************************************************************)
(* Storage, queue and chain                                                *)
(***************************************************************************)
\* the text is a decimal number: what DynamoDB accepts for an attribute of type N
IsNumberText(text) ==
  LET neg   == Len(text) > 0 /\ text[1] = "-"
      body  == IF neg THEN Tail(text) ELSE text
      dot   == includes(body, ".")
      whole == IF dot THEN SplitFirst(body, ".") ELSE body
      frac  == IF dot THEN SubSeq(body, FirstSep(body, ".") + 1, Len(body)) ELSE <<>>
  IN  AllDigits(whole) /\ AllDigits(frac) /\ Len(whole) + Len(frac) > 0

\* PutItemCommand on the order book table
OrderItem(order, orderId, orderType, status) ==
  [symbol |-> ToStringOf(order.symbol), orderId |-> orderId, owner |-> ToStringOf(order.owner),
   price |-> ToStringOf(order.price), qty |-> ToStringOf(order.qty),
   side |-> SideOrBuy(order), type |-> orderType, status |-> status]

\* PutItemCommand on the trades table; the settlement attributes are absent
TradeItem(order, tradeId, orderId, orderType) ==
  [symbol |-> ToStringOf(order.symbol), tradeId |-> tradeId, orderId |-> orderId,
   owner |-> ToStringOf(order.owner), price |-> ToStringOf(order.price),
   qty |-> ToStringOf(order.qty), side |-> SideOrBuy(order), type |-> orderType,
   settlementTxHash |-> NoText, settlementBlockNumber |-> 0]

\* DynamoDB rejects an item whose N attributes are not numbers
PutAccepted(item) == IsNumberText(item.price) /\ IsNumberText(item.qty)

\* mutant: the order book is keyed by the symbol alone
PutOrderItem_BySymbol(table, item) ==
  {x \in table : x.symbol # item.symbol} \cup {item}

PutOrderItem(table, item) ==
  {x \in table : ~(x.symbol = item.symbol /\ x.orderId = item.orderId)} \cup {item}

PutTradeItem(table, item) ==
  {x \in table : ~(x.symbol = item.symbol /\ x.tradeId = item.tradeId)} \cup {item}

\* mutant: the update reaches every trade of the symbol
UpdateTradeItem_AllOfSymbol(table, symbol, tradeId, txHash, blockNumber) ==
  {IF x.symbol = symbol
     THEN [x EXCEPT !.settlementTxHash = txHash, !.settlementBlockNumber = blockNumber]
     ELSE x : x \in table}

\* UpdateItemCommand SET settlementTxHash, settlementBlockNumber on key (symbol, tradeId)
UpdateTradeItem(table, symbol, tradeId, txHash, blockNumber) ==
  IF \E x \in table : x.symbol = symbol /\ x.tradeId = tradeId
    THEN {IF x.symbol = symbol /\ x.tradeId = tradeId
            THEN [x EXCEPT !.settlementTxHash = txHash, !.settlementBlockNumber = blockNumber]
            ELSE x : x \in table}
    ELSE table \cup {[symbol |-> symbol, tradeId |-> tradeId, orderId |-> NoId, owner |-> NoText,
                      price |-> NoText, qty |-> NoText, side |-> NoText, type |-> NoText,
                      settlementTxHash |-> txHash, settlementBlockNumber |-> blockNumber]}

\* a transaction sent to the settlement contract, not yet mined
Transaction(call, hash, balanceUpdates, tokenAddress) ==
  [call |-> call, tradeHash |-> hash, balanceUpdates |-> balanceUpdates,
   tokenAddress |-> tokenAddress, state |-> "pending", blockNumber |-> 0]

\* the block a transaction may be mined in: a new one, or the latest one
\* together with the transactions already in it
Blocks == {height + 1} \cup (IF height > 0 THEN {height} ELSE {})

\* the transactions of settleBatch calls
Settlements == {tx \in chain : tx.call = "settleBatch"}

\* randomUUID(): the k-th draw of invocation i (0: the generator); no two draws
\* give the same value
randomUUID(i, k) == <<"uuid", i, k>>

\* the hash of the transaction that carries a settleBatch call
TxHash(tradeHash) == <<"tx", tradeHash>>

(***************************************************************************)
(* The order handler, one action per awaited step.  The settling handler   *)
(* and the plain matcher differ only after the trade write.                *)
(***************************************************************************)
\* mutant: every order is matched at random
MatchDecision_Random(orderType, random) == random

\* orderType === "market" ? true : Math.random() > 0.5
MatchDecision(orderType, random) == IF orderType = Chars("market") THEN TRUE ELSE random

\* mutant: every order is written as FILLED
StatusOf_Filled(matched) == "FILLED"

\* the status the order is written with
StatusOf(matched) == IF matched THEN "FILLED" ELSE "PENDING"

\* JSON.parse, validation, orderId and the match decision
Receive(i) ==
  /\ pc[i] = "start"
  /\ LET req   == inbox[i]
         order == req.body
     IN  \E d \in DeliveryOutcomes(req.conn), random \in BOOLEAN :
           CASE order.kind = "badjson" ->
                  /\ NotifyAndReturn(i, <<>>,
                       sendOrderMessage(OrderError(Fixed("Invalid order format")), d),
                       Respond(400, Fixed("Invalid order format"), FALSE))
                  /\ UNCHANGED local
             [] order.kind = "null" ->
                  \* order.type of undefined throws a TypeError
                  /\ OuterCatch(i, <<>>, <<>>, d)
                  /\ UNCHANGED local
             [] order.kind = "object" /\ ValidationFails(order) ->
                  /\ NotifyAndReturn(i, <<>>,
                       sendOrderMessage(OrderError(ValidationMessage(order)), d),
                       Respond(400, ValidationMessage(order), FALSE))
                  /\ UNCHANGED local
             [] order.kind = "object" /\ ~ValidationFails(order) ->
                  LET orderType == orderTypeOf(order).s
                      matched   == MatchDecision(orderType, random)
                  IN  /\ local' = [local EXCEPT ![i] =
                                     [@ EXCEPT !.orderId = randomUUID(i, 1),
                                               !.orderType = orderType,
                                               !.matched = matched,
                                               !.status = StatusOf(matched)]]
                      /\ Go(i, <<>>, "putOrder")
  /\ UNCHANGED <<inbox, orders, trades, queue, chain, height, calcIn, calcOut, events, beside>>

\* mutant: after a failed PutItem the handler notifies and goes on
PutOrder_GoesOn(i) ==
  /\ pc[i] = "putOrder"
  /\ LET req  == inbox[i]
         item == OrderItem(req.body, local[i].orderId, local[i].orderType, local[i].status)
     IN  \E ok \in BOOLEAN, d \in DeliveryOutcomes(req.conn) :
           /\ ok => PutAccepted(item)
           /\ IF ok
                THEN /\ orders' = PutOrderItem(orders, item)
                     /\ Go(i, <<Step("orderWrite", TRUE)>>, "ackReceived")
                ELSE /\ orders' = orders
                     /\ NotifyAndGo(i, <<Step("orderWrite", FALSE)>>,
                          sendToConnection(
                            Payload("", "", "ERROR", Fixed("Failed to store order"), NoId), d),
                          "ackReceived")
  /\ UNCHANGED <<inbox, local, trades, queue, chain, height, calcIn, calcOut, events, beside>>

\* PutItem of the order; a rejected write is caught
PutOrder(i) ==
  /\ pc[i] = "putOrder"
  /\ LET req  == inbox[i]
         item == OrderItem(req.body, local[i].orderId, local[i].orderType, local[i].status)
     IN  \E ok \in BOOLEAN :
           /\ ok => PutAccepted(item)
           /\ IF ok
                THEN /\ orders' = PutOrderItem(orders, item)
                     /\ Go(i, <<Step("orderWrite", TRUE)>>, "ackReceived")
                ELSE /\ orders' = orders
                     /\ Fail(i, <<Step("orderWrite", FALSE)>>)
  /\ UNCHANGED <<inbox, local, trades, queue, chain, height, calcIn, calcOut, events, beside>>

\* ORDER_RECEIVED; a matched order then draws its tradeId
AckReceived(i) ==
  /\ pc[i] = "ackReceived"
  /\ \E d \in DeliveryOutcomes(inbox[i].conn) :
       NotifyAndGo(i, <<>>,
         sendOrderMessage(
           Payload("", "ORDER_RECEIVED", "Order received", Fixed(""), local[i].orderId), d),
         IF local[i].matched THEN "putTrade" ELSE "final")
  /\ local' = IF local[i].matched
                THEN [local EXCEPT ![i].tradeId = randomUUID(i, 2)]
                ELSE local
  /\ UNCHANGED <<inbox, orders, trades, queue, chain, height, calcIn, calcOut, events, beside>>

\* mutant: a failed computation is skipped over and the order reported as matched
PutTrade_IgnoresComputeError(i) ==
  /\ pc[i] = "putTrade"
  /\ LET req  == inbox[i]
         item == TradeItem(req.body, local[i].tradeId, local[i].orderId, local[i].orderType)
         comp == calculateBalanceUpdates(req.body)
     IN  \E ok \in BOOLEAN :
           /\ ok => PutAccepted(item)
           /\ CASE ~ok ->
                     /\ trades' = trades
                     /\ local' = local
                     /\ Fail(i, <<Step("tradeWrite", FALSE)>>)
                [] ok /\ req.handler = "matcher" ->
                     /\ trades' = PutTradeItem(trades, item)
                     /\ local' = local
                     /\ Go(i, <<Step("tradeWrite", TRUE)>>, "enqueue")
                [] ok /\ req.handler = "settlement" /\ comp.ok ->
                     /\ trades' = PutTradeItem(trades, item)
                     /\ local' = [local EXCEPT ![i].computation = comp]
                     /\ Go(i, <<Step("tradeWrite", TRUE), Step("compute", TRUE)>>, "submit")
                [] ok /\ req.handler = "settlement" /\ ~comp.ok ->
                     /\ trades' = PutTradeItem(trades, item)
                     /\ local' = local
                     /\ Go(i, <<Step("tradeWrite", TRUE), Step("compute", FALSE)>>, "final")
  /\ UNCHANGED <<inbox, orders, queue, chain, height, calcIn, calcOut, events, beside>>

\* PutItem of the trade; the settling handler then computes the balance updates;
\* a rejected write and a computation that throws are caught
PutTrade(i) ==
  /\ pc[i] = "putTrade"
  /\ LET req  == inbox[i]
         item == TradeItem(req.body, local[i].tradeId, local[i].orderId, local[i].orderType)
         comp == calculateBalanceUpdates(req.body)
     IN  \E ok \in BOOLEAN :
           /\ ok => PutAccepted(item)
           /\ CASE ~ok ->
                     /\ trades' = trades
                     /\ local' = local
                     /\ Fail(i, <<Step("tradeWrite", FALSE)>>)
                [] ok /\ req.handler = "matcher" ->
                     /\ trades' = PutTradeItem(trades, item)
                     /\ local' = local
                     /\ Go(i, <<Step("tradeWrite", TRUE)>>, "enqueue")
                [] ok /\ req.handler = "settlement" /\ comp.ok ->
                     /\ trades' = PutTradeItem(trades, item)
                     /\ local' = [local EXCEPT ![i].computation = comp]
                     /\ Go(i, <<Step("tradeWrite", TRUE), Step("compute", TRUE)>>, "submit")
                [] ok /\ req.handler = "settlement" /\ ~comp.ok ->
                     /\ trades' = PutTradeItem(trades, item)
                     /\ local' = [local EXCEPT ![i].computation = comp]
                     /\ Fail(i, <<Step("tradeWrite", TRUE), Step("compute", FALSE)>>)
  /\ UNCHANGED <<inbox, orders, queue, chain, height, calcIn, calcOut, events, beside>>

\* mutant: the hash is taken of the order's symbol
TradeHash_OfSymbol(i) == ethersId(ToStringOf(inbox[i].body.symbol))

\* ethers.id(tradeId)
TradeHash(i) == ethersId(local[i].tradeId)

\* mutant: the settlement branch reports the trade storage message
SettlementFailed_StoreMessage == Fixed("Failed to store trade")

SettlementFailed == Fixed("Failed to settle trade on-chain")

\* mutant: after settleBatch the handler does not wait for the confirmation
Submit_Unconfirmed(i) ==
  /\ pc[i] = "submit"
  /\ \E ok \in BOOLEAN :
       IF ok
         THEN /\ chain' = chain \cup {Transaction("settleBatch", TradeHash(i),
                                                   local[i].computation.balanceUpdates,
                                                   NoText)}
              /\ Go(i, <<Step("submit", TRUE)>>, "enrich")
         ELSE /\ chain' = chain
              /\ Fail(i, <<Step("submit", FALSE)>>)
  /\ UNCHANGED <<inbox, local, orders, trades, queue, height, calcIn, calcOut, events, beside>>

\* settlementContract.settleBatch(tradeHash, balanceUpdates); a rejection is caught
Submit(i) ==
  /\ pc[i] = "submit"
  /\ \E ok \in BOOLEAN :
       IF ok
         THEN /\ chain' = chain \cup {Transaction("settleBatch", TradeHash(i),
                                                   local[i].computation.balanceUpdates,
                                                   NoText)}
              /\ Go(i, <<Step("submit", TRUE)>>, "confirm")
         ELSE /\ chain' = chain
              /\ Fail(i, <<Step("submit", FALSE)>>)
  /\ UNCHANGED <<inbox, local, orders, trades, queue, height, calcIn, calcOut, events, beside>>

\* tx.wait(Math.max(1, settlementConfirmations)); a failed wait leaves the
\* transaction reverted or still pending, and is caught
Confirm(i) ==
  /\ pc[i] = "confirm"
  /\ \E ok \in BOOLEAN, left \in {"reverted", "pending"}, block \in Blocks :
       IF ok
         THEN /\ chain' = {IF tx.tradeHash = TradeHash(i) /\ tx.state = "pending"
                             THEN [tx EXCEPT !.state = "confirmed", !.blockNumber = block]
                             ELSE tx : tx \in chain}
              /\ height' = block
              /\ local' = [local EXCEPT ![i].receipt =
                             [hash |-> TxHash(TradeHash(i)), blockNumber |-> block]]
              /\ Go(i, <<Step("confirm", TRUE)>>, "enrich")
         ELSE /\ chain' = {IF tx.tradeHash = TradeHash(i) /\ tx.state = "pending"
                             THEN [tx EXCEPT !.state = left]
                             ELSE tx : tx \in chain}
              /\ UNCHANGED <<height, local>>
              /\ Fail(i, <<Step("confirm", FALSE)>>)
  /\ UNCHANGED <<inbox, orders, trades, queue, calcIn, calcOut, events, beside>>

\* mutant: a failed UpdateItem ends the invocation with an error
Enrich_AbortsOnFailure(i) ==
  /\ pc[i] = "enrich"
  /\ \E ok \in BOOLEAN, d \in DeliveryOutcomes(inbox[i].conn) :
       IF ok
         THEN /\ trades' = UpdateTradeItem(trades, ToStringOf(inbox[i].body.symbol),
                                           local[i].tradeId, local[i].receipt.hash,
                                           local[i].receipt.blockNumber)
              /\ Go(i, <<Step("enrich", TRUE)>>, "enqueue")
         ELSE /\ trades' = trades
              /\ NotifyAndReturn(i, <<Step("enrich", FALSE)>>,
                   sendOrderMessage(OrderError(Fixed("Failed to update trade")), d),
                   Respond(500, Fixed("Failed to update trade"), FALSE))
  /\ UNCHANGED <<inbox, local, orders, queue, chain, height, calcIn, calcOut, events, beside>>

\* UpdateItem of the trade with the receipt; a failure is only logged
Enrich(i) ==
  /\ pc[i] = "enrich"
  /\ \E ok \in BOOLEAN :
       /\ trades' = IF ok
                      THEN UpdateTradeItem(trades, ToStringOf(inbox[i].body.symbol), local[i].tradeId,
                                           local[i].receipt.hash, local[i].receipt.blockNumber)
                      ELSE trades
       /\ Go(i, <<Step("enrich", ok)>>, "enqueue")
  /\ UNCHANGED <<inbox, local, orders, queue, chain, height, calcIn, calcOut, events, beside>>

NoSettlement == [tradeHash |-> NoText, txHash |-> NoText, blockNumber |-> 0]

\* mutant: the queued trade carries no balance updates
tradePayload_NoUpdates(i) ==
  LET order == inbox[i].body
  IN  [tradeId |-> local[i].tradeId, orderId |-> local[i].orderId,
       symbol |-> order.symbol, price |-> order.price, qty |-> order.qty,
       owner |-> order.owner, side |-> SideOrBuy(order), type |-> local[i].orderType,
       settlement |-> IF inbox[i].handler = "settlement"
                        THEN [tradeHash |-> TradeHash(i), txHash |-> local[i].receipt.hash,
                              blockNumber |-> local[i].receipt.blockNumber]
                        ELSE NoSettlement,
       balanceUpdates |-> <<>>]

\* settlementSummary and tradePayload
tradePayload(i) ==
  LET order    == inbox[i].body
      settling == inbox[i].handler = "settlement"
  IN  [tradeId |-> local[i].tradeId, orderId |-> local[i].orderId,
       symbol |-> order.symbol, price |-> order.price, qty |-> order.qty,
       owner |-> order.owner, side |-> SideOrBuy(order), type |-> local[i].orderType,
       settlement |-> IF settling
                        THEN [tradeHash |-> TradeHash(i), txHash |-> local[i].receipt.hash,
                              blockNumber |-> local[i].receipt.blockNumber]
                        ELSE NoSettlement,
       balanceUpdates |-> IF settling THEN local[i].computation.balanceUpdates ELSE <<>>]

\* mutant: the enqueue branch reports the settlement message
EnqueueFailed_SettlementMessage == Fixed("Failed to settle trade on-chain")

EnqueueFailed == Fixed("Failed to process trade")

\* mutant: a failed SendMessage is tried again
Enqueue_Retries(i) ==
  /\ pc[i] = "enqueue"
  /\ \E ok \in BOOLEAN, d \in DeliveryOutcomes(inbox[i].conn) :
       IF ok
         THEN /\ queue' = queue \cup {tradePayload(i)}
              /\ Go(i, <<Step("enqueue", TRUE)>>, "final")
         ELSE /\ queue' = queue
              /\ IF Len(log[i]) < 12
                   THEN Go(i, <<Step("enqueue", FALSE)>>, "enqueue")
                   ELSE NotifyAndReturn(i, <<Step("enqueue", FALSE)>>,
                          sendOrderMessage(OrderError(EnqueueFailed), d),
                          Respond(500, EnqueueFailed, FALSE))
  /\ UNCHANGED <<inbox, local, orders, trades, chain, height, calcIn, calcOut, events, beside>>

\* SendMessage to the trade queue; a rejection is caught
Enqueue(i) ==
  /\ pc[i] = "enqueue"
  /\ \E ok \in BOOLEAN :
       IF ok
         THEN /\ queue' = queue \cup {tradePayload(i)}
              /\ Go(i, <<Step("enqueue", TRUE)>>, "final")
         ELSE /\ queue' = queue
              /\ Fail(i, <<Step("enqueue", FALSE)>>)
  /\ UNCHANGED <<inbox, local, orders, trades, chain, height, calcIn, calcOut, events, beside>>

\* the catch block of the step that threw: what it posts and what it returns
\* (the error of a failed computation is the one it caught).
\* The failed order write posts through the bare sendToConnection.
FailureOf(i) ==
  LET failed == log[i][Len(log[i])].step
      err    == local[i].computation.error
  IN  CASE failed = "orderWrite" ->
             [bare |-> TRUE,
              payload |-> Payload("", "", "ERROR", Fixed("Failed to store order"), NoId),
              response |-> Respond(500, Fixed("Failed to store order"), FALSE)]
        [] failed = "tradeWrite" ->
             [bare |-> FALSE, payload |-> OrderError(Fixed("Failed to store trade")),
              response |-> Respond(500, Fixed("Failed to store trade"), FALSE)]
        [] failed = "compute" ->
             [bare |-> FALSE, payload |-> OrderError(err),
              response |-> Respond(400, err, FALSE)]
        [] failed \in {"submit", "confirm"} ->
             [bare |-> FALSE, payload |-> OrderError(SettlementFailed),
              response |-> Respond(502, SettlementFailed, FALSE)]
        [] failed = "enqueue" ->
             [bare |-> FALSE, payload |-> OrderError(EnqueueFailed),
              response |-> Respond(500, EnqueueFailed, FALSE)]

\* the awaited post of a catch block, then `return`
ReportError(i) ==
  /\ pc[i] = "reportError"
  /\ \E d \in DeliveryOutcomes(inbox[i].conn) :
       LET failure == FailureOf(i)
           posted  == IF failure.bare THEN sendToConnection(failure.payload, d)
                                      ELSE sendOrderMessage(failure.payload, d)
       IN  NotifyAndReturn(i, <<>>, posted, failure.response)
  /\ UNCHANGED <<inbox, local, orders, trades, queue, chain, height, calcIn, calcOut, events, beside>>

\* ORDER_MATCHED or ORDER_STORED, status 200
Final(i) ==
  /\ pc[i] = "final"
  /\ \E d \in DeliveryOutcomes(inbox[i].conn) :
       NotifyAndReturn(i, <<>>,
         sendOrderMessage(
           Payload("", IF local[i].matched THEN "ORDER_MATCHED" ELSE "ORDER_STORED",
                   IF local[i].matched THEN "Order matched" ELSE "Order stored",
                   Fixed(""), local[i].orderId), d),
         Respond(200, Fixed(""), local[i].matched))
  /\ UNCHANGED <<inbox, local, orders, trades, queue, chain, height, calcIn, calcOut, events, beside>>

(***************************************************************************)
(* The mock-data generator: it writes filled limit orders and their trades  *)
(* into the two tables, with no settlement, queue message or notification.  *)
(***************************************************************************)
\* the keys of DEFAULT_SYMBOL_MAP
DEFAULT_SYMBOL_MAP ==
  << <<"B","T","C">>, <<"E","T","H">>, <<"S","O","L">>, <<"A","V","A","X">>,
     <<"B","N","B">>, <<"D","O","G","E">>, <<"S","U","I">>, <<"L","I","N","K">> >>

\* the properties a plain object inherits from Object.prototype
ObjectPrototypeKeys ==
  { <<"c","o","n","s","t","r","u","c","t","o","r">>,
    <<"t","o","S","t","r","i","n","g">>,
    <<"t","o","L","o","c","a","l","e","S","t","r","i","n","g">>,
    <<"v","a","l","u","e","O","f">>,
    <<"h","a","s","O","w","n","P","r","o","p","e","r","t","y">>,
    <<"i","s","P","r","o","t","o","t","y","p","e","O","f">>,
    <<"p","r","o","p","e","r","t","y","I","s","E","n","u","m","e","r","a","b","l","e">>,
    <<"_","_","p","r","o","t","o","_","_">>,
    <<"_","_","d","e","f","i","n","e","G","e","t","t","e","r","_","_">>,
    <<"_","_","d","e","f","i","n","e","S","e","t","t","e","r","_","_">>,
    <<"_","_","l","o","o","k","u","p","G","e","t","t","e","r","_","_">>,
    <<"_","_","l","o","o","k","u","p","S","e","t","t","e","r","_","_">> }

\* symbol is a key of the symbol map itself: its config has an exchange symbol
HasSymbolConfig(symbol) == \E k \in 1..Len(DEFAULT_SYMBOL_MAP) : DEFAULT_SYMBOL_MAP[k] = symbol

\* symbolMap[symbol] is truthy: a key of the map, or a property every object inherits
InSymbolMap(symbol) == HasSymbolConfig(symbol) \/ symbol \in ObjectPrototypeKeys

\* Math.max(1, Math.min(200, body.perSideCount))
perSideCountOf(n) == IF n < 1 THEN 1 ELSE IF n > 200 THEN 200 ELSE n

\* (body.symbols?.length ? body.symbols : Object.keys(symbolMap)).filter(...)
targetSymbols(symbols) ==
  SelectSeq(IF Len(symbols) > 0 THEN symbols ELSE DEFAULT_SYMBOL_MAP, InSymbolMap)

\* requests of the generator: body.symbols (empty when absent) and perSideCount
GenRequests ==
  { [symbols |-> << <<"B","T","C">> >>, perSideCount |-> 1],
    [symbols |-> << <<"X","R","P">> >>, perSideCount |-> 1],
    [symbols |-> << <<"c","o","n","s","t","r","u","c","t","o","r">> >>, perSideCount |-> 1],
    [symbols |-> << <<"t","o","S","t","r","i","n","g">>, <<"B","T","C">> >>, perSideCount |-> 0],
    [symbols |-> <<>>, perSideCount |-> 1] }

\* prices the exchange can answer for a symbol, in hundredths: 50000, 67000.5, 0, -3
GenPriceValues == {5000000, 6700050, 0, -300}

\* what the exchange answers: a finite price for some of the symbols asked
GenPrices ==
  {[sy \in {} |-> 0]} \cup {[sy \in {<<"B","T","C">>} |-> p] : p \in GenPriceValues}

\* the Math.random() draws of one item, in thousandths: owner, price, quantity
GenDraws ==
  { [owner |-> 0, price |-> 500, qty |-> 0],
    [owner |-> 500, price |-> 500, qty |-> 500],
    [owner |-> 990, price |-> 0, qty |-> 999] }

GenOff == [phase |-> "off", request |-> [symbols |-> <<>>, perSideCount |-> 0],
           orders |-> {}, trades |-> {}, statusCode |-> 0]

GenSides == <<BUY, SELL>>

RECURSIVE NatChars(_)
\* the decimal digits of a natural number
NatChars(n) ==
  IF n < 10 THEN <<DigitChars[n + 1]>>
  ELSE NatChars(n \div 10) \o <<DigitChars[(n % 10) + 1]>>

RECURSIVE FractionChars(_, _)
\* the digits of frac / scale, up to the last one that is not zero
FractionChars(frac, scale) ==
  IF frac = 0 THEN <<>>
  ELSE <<DigitChars[(frac \div (scale \div 10)) + 1]>>
         \o FractionChars(frac % (scale \div 10), scale \div 10)

\* Number.prototype.toString of n / scale
NumberText(n, scale) ==
  LET a == IF n < 0 THEN -n ELSE n
  IN  (IF n < 0 THEN <<"-">> ELSE <<>>) \o NatChars(a \div scale)
        \o (IF a % scale = 0 THEN <<>> ELSE <<".">> \o FractionChars(a % scale, scale))

(***************************************************************************)
(* Number arithmetic of the generator.  A Number that is not negative is   *)
(* the exact value of its double, [m, e]: the natural number m, below      *)
(* 2^53 or equal to it, times 2^e.  m is a sequence of limbs of 13 bits    *)
(* (base 8192), least significant first, without high zero limbs; zero is  *)
(* <<>>.  Every operation computes the exact result and rounds it to the   *)
(* 53 bits of a double's significand, ties to the even significand, as     *)
(* IEEE 754 does.  The values of the generator stay below the overflow     *)
(* and above the subnormal range.                                          *)
(***************************************************************************)
RECURSIVE Trim(_)
\* x without its high zero limbs
Trim(x) == IF Len(x) > 0 /\ x[Len(x)] = 0 THEN Trim(SubSeq(x, 1, Len(x) - 1)) ELSE x

RECURSIVE NatLimbs(_)
\* the limbs of a natural number
NatLimbs(n) == IF n = 0 THEN <<>> ELSE <<n % 8192>> \o NatLimbs(n \div 8192)

RECURSIVE LimbsNat(_)
\* the natural number of the limbs
LimbsNat(x) == IF Len(x) = 0 THEN 0 ELSE x[1] + 8192 * LimbsNat(Tail(x))

RECURSIVE MulSmall(_, _, _)
\* x * c + carry for a natural number c below 2^17
MulSmall(x, c, carry) ==
  IF Len(x) = 0 THEN NatLimbs(carry)
  ELSE LET t == x[1] * c + carry
       IN  <<t % 8192>> \o MulSmall(Tail(x), c, t \div 8192)

RECURSIVE DivSmall(_, _)
\* quotient q and remainder r of x by a natural number c, 0 < c < 2^17
DivSmall(x, c) ==
  IF Len(x) = 0 THEN [q |-> <<>>, r |-> 0]
  ELSE LET hi == DivSmall(Tail(x), c)
           t  == hi.r * 8192 + x[1]
       IN  [q |-> <<t \div c>> \o hi.q, r |-> t % c]

RECURSIVE AddLimbs(_, _, _)
\* the limbs of x + y + carry
AddLimbs(x, y, carry) ==
  IF Len(x) = 0 /\ Len(y) = 0 THEN (IF carry = 0 THEN <<>> ELSE <<carry>>)
  ELSE LET t == (IF Len(x) = 0 THEN 0 ELSE x[1]) + (IF Len(y) = 0 THEN 0 ELSE y[1]) + carry
       IN  <<t % 8192>> \o AddLimbs(IF Len(x) = 0 THEN x ELSE Tail(x),
                                    IF Len(y) = 0 THEN y ELSE Tail(y), t \div 8192)

\* x + y
BinAdd(x, y) == Trim(AddLimbs(x, y, 0))

RECURSIVE SubLimbs(_, _, _)
\* the limbs of x - y - borrow, for x >= y + borrow
SubLimbs(x, y, borrow) ==
  IF Len(x) = 0 THEN <<>>
  ELSE LET t == x[1] - (IF Len(y) = 0 THEN 0 ELSE y[1]) - borrow
       IN  <<(t + 8192) % 8192>> \o SubLimbs(Tail(x), IF Len(y) = 0 THEN y ELSE Tail(y),
                                             IF t < 0 THEN 1 ELSE 0)

\* x - y, for x >= y
BinSub(x, y) == Trim(SubLimbs(x, y, 0))

RECURSIVE BinMul(_, _)
\* x * y
BinMul(x, y) ==
  IF Len(x) = 0 THEN <<>>
  ELSE BinAdd(MulSmall(y, x[1], 0), <<0>> \o BinMul(Tail(x), y))

\* x * 2^s
BinShiftLeft(x, s) ==
  Trim([i \in 1..(s \div 13) |-> 0] \o MulSmall(x, 2^(s % 13), 0))

\* x / 2^s, rounded down
BinShiftRight(x, s) ==
  IF s \div 13 >= Len(x) THEN <<>>
  ELSE Trim(DivSmall(SubSeq(x, s \div 13 + 1, Len(x)), 2^(s % 13)).q)

\* bit i of x, bit 0 the least significant
BinBit(x, i) ==
  IF i < 0 \/ i \div 13 >= Len(x) THEN 0
  ELSE (x[i \div 13 + 1] \div 2^(i % 13)) % 2

\* the bits of x below bit s are all zero
BinLowZero(x, s) ==
  \A i \in 1..Len(x) :
    \/ i > s \div 13 + 1
    \/ i = s \div 13 + 1 /\ (s < 0 \/ x[i] % 2^(s % 13) = 0)
    \/ i < s \div 13 + 1 /\ x[i] = 0

\* the number of bits of x
BinLength(x) ==
  IF Len(x) = 0 THEN 0
  ELSE 13 * (Len(x) - 1)
         + (CHOOSE b \in 1..13 : 2^(b - 1) <= x[Len(x)] /\ x[Len(x)] < 2^b)

\* the double nearest to x * 2^e (plus a fraction of 2^e when inexact): the
\* significand is cut to 53 bits and rounded up when the part cut off is more
\* than half a unit, or half a unit and the significand is odd
RoundToDouble(x, e, inexact) ==
  LET s == BinLength(x) - 53
  IN  IF s <= 0 THEN [m |-> x, e |-> e]
      ELSE LET q      == BinShiftRight(x, s)
               sticky == inexact \/ ~BinLowZero(x, s - 1)
               up     == BinBit(x, s - 1) = 1 /\ (sticky \/ BinBit(q, 0) = 1)
           IN  [m |-> IF up THEN BinAdd(q, <<1>>) ELSE q, e |-> e + s]

\* the Number of the decimal n / 10^scale (a literal, a price the exchange
\* answers, a draw of Math.random()): n * 2^80 is divided by 10^scale, the
\* quotient has more than 53 bits and the remainder only breaks ties
NumberOf(n, scale) ==
  LET d == DivSmall(BinShiftLeft(NatLimbs(n), 80), 10^scale)
  IN  RoundToDouble(Trim(d.q), -80, d.r # 0)

\* x * y
NumberMul(x, y) == RoundToDouble(BinMul(x.m, y.m), x.e + y.e, FALSE)

\* x + y
NumberAdd(x, y) ==
  LET e == IF x.e < y.e THEN x.e ELSE y.e
  IN  RoundToDouble(BinAdd(BinShiftLeft(x.m, x.e - e), BinShiftLeft(y.m, y.e - e)), e, FALSE)

\* x - y, for x >= y
NumberSub(x, y) ==
  LET e == IF x.e < y.e THEN x.e ELSE y.e
  IN  RoundToDouble(BinSub(BinShiftLeft(x.m, x.e - e), BinShiftLeft(y.m, y.e - e)), e, FALSE)

\* x * 2^e rounded down to an integer, plus 1 when half is TRUE and the
\* fraction cut off is a half or more
BinScale(x, e, half) ==
  IF e >= 0 THEN BinShiftLeft(x, e)
  ELSE BinAdd(BinShiftRight(x, -e), IF half /\ BinBit(x, -e - 1) = 1 THEN <<1>> ELSE <<>>)

\* Math.floor(x)
MathFloor(x) == LimbsNat(BinScale(x.m, x.e, FALSE))

\* x.toFixed(digits), as the integer n for which n / 10^digits is nearest to x,
\* the larger n when two are as near
toFixed(x, digits) == LimbsNat(BinScale(MulSmall(x.m, 10^digits, 0), x.e, TRUE))

\* mockOwners.length
mockOwnersLength == 50

\* pickOwner: mockOwners[Math.floor(r * mockOwners.length)] for the draw r (in
\* thousandths), mockOwners[k] = "mock-user-" + (k + 1)
pickOwner(r) ==
  <<"m","o","c","k","-","u","s","e","r","-">>
    \o NatChars(MathFloor(NumberMul(NumberOf(r, 3), NumberOf(mockOwnersLength, 0))) + 1)

\* percent = 0.05
percent == NumberOf(5, 2)

\* minFactor = 1 - percent
minFactor == NumberSub(NumberOf(1, 0), percent)

\* maxFactor = 1 + percent
maxFactor == NumberAdd(NumberOf(1, 0), percent)

\* randomWithinPercent(base): parseFloat((base * factor).toFixed(2)) for
\* factor = minFactor + r * (maxFactor - minFactor), base and the result in
\* hundredths, the draw r in thousandths; the sign of base is the sign of the
\* product, and toFixed rounds the magnitude
randomWithinPercent(base, r) ==
  LET a      == IF base < 0 THEN -base ELSE base
      factor == NumberAdd(minFactor, NumberMul(NumberOf(r, 3), NumberSub(maxFactor, minFactor)))
      cents  == toFixed(NumberMul(NumberOf(a, 2), factor), 2)
  IN  IF base < 0 THEN -cents ELSE cents

\* min = 0.01, max = 5 of randomQuantity
minQuantity == NumberOf(1, 2)

maxQuantity == NumberOf(5, 0)

\* randomQuantity: parseFloat((min + r * (max - min)).toFixed(4)), in
\* ten-thousandths, the draw r in thousandths
randomQuantity(r) ==
  toFixed(NumberAdd(minQuantity, NumberMul(NumberOf(r, 3), NumberSub(maxQuantity, minQuantity))), 4)

\* the two randomUUID() draws of the n-th item of a side of the s-th symbol that
\* has a price
GenDraw(s, sd, n, count, which) ==
  randomUUID(0, ((s - 1) * 2 + (sd - 1)) * 2 * count + 2 * (n - 1) + which)

\* the order of buildOrderItem: a limit order already FILLED
GenOrderItem(symbol, s, sd, n, count, base, draw) ==
  [symbol |-> symbol, orderId |-> GenDraw(s, sd, n, count, 1),
   owner |-> pickOwner(draw.owner),
   price |-> NumberText(randomWithinPercent(base, draw.price), 100),
   qty |-> NumberText(randomQuantity(draw.qty), 10000), side |-> GenSides[sd],
   type |-> <<"l","i","m","i","t">>, status |-> "FILLED"]

\* the trade of buildTradeItem: the owner, price and quantity of its order, no
\* settlement attributes
GenTradeItem(symbol, s, sd, n, count, base, draw) ==
  [symbol |-> symbol, tradeId |-> GenDraw(s, sd, n, count, 2),
   orderId |-> GenDraw(s, sd, n, count, 1),
   owner |-> pickOwner(draw.owner),
   price |-> NumberText(randomWithinPercent(base, draw.price), 100),
   qty |-> NumberText(randomQuantity(draw.qty), 10000), side |-> GenSides[sd],
   type |-> <<"l","i","m","i","t">>, settlementTxHash |-> NoText, settlementBlockNumber |-> 0]

\* the target symbols that have a finite price, in the order of the targets
GenPriced(targets, prices) ==
  LET HasPrice(symbol) == symbol \in DOMAIN prices
  IN  SelectSeq(targets, HasPrice)

\* the items generated: <<symbol, side, number>>
GenItems(targets, prices, count) ==
  (1..Len(GenPriced(targets, prices))) \X (1..2) \X (1..count)

GenOrders(targets, prices, count, draws) ==
  LET priced == GenPriced(targets, prices)
  IN  {GenOrderItem(priced[it[1]], it[1], it[2], it[3], count, prices[priced[it[1]]], draws[it]) :
         it \in GenItems(targets, prices, count)}

GenTrades(targets, prices, count, draws) ==
  LET priced == GenPriced(targets, prices)
  IN  {GenTradeItem(priced[it[1]], it[1], it[2], it[3], count, prices[priced[it[1]]], draws[it]) :
         it \in GenItems(targets, prices, count)}

\* BatchWriteItem of PutRequests: the processed items replace those of the same key
BatchWriteOrders(tbl, items) ==
  {x \in tbl : ~\E y \in items : y.symbol = x.symbol /\ y.orderId = x.orderId} \cup items

BatchWriteTrades(tbl, items) ==
  {x \in tbl : ~\E y \in items : y.symbol = x.symbol /\ y.tradeId = x.tradeId} \cup items

GenReturn(code) == [gen EXCEPT !.phase = "done", !.statusCode = code]

\* the request is read, the prices are fetched and the items are built;
\* fetchBinancePrices throws when no target has an exchange symbol
GenFetch ==
  /\ gen.phase = "start"
  /\ LET targets == targetSymbols(gen.request.symbols)
         count   == perSideCountOf(gen.request.perSideCount)
     IN  IF Len(targets) = 0
           THEN gen' = GenReturn(400)
           ELSE IF \A k \in 1..Len(targets) : ~HasSymbolConfig(targets[k])
           THEN gen' = GenReturn(500)
           ELSE \E ok \in BOOLEAN, prices \in GenPrices :
                  \E draws \in [GenItems(targets, prices, count) -> GenDraws] :
                    gen' = IF ~ok \/ GenItems(targets, prices, count) = {}
                             THEN GenReturn(500)
                             ELSE [gen EXCEPT !.phase = "writeOrders",
                                              !.orders = GenOrders(targets, prices, count, draws),
                                              !.trades = GenTrades(targets, prices, count, draws)]
  /\ UNCHANGED <<pipeline, calcIn, calcOut, events, admin, connections>>

\* one BatchWriteItem of batchWriteAll(ORDERBOOK_TABLE, orders): it rejects, or
\* it processes some of the pending items and leaves the others for the next
GenWriteOrders ==
  /\ gen.phase = "writeOrders"
  /\ \E ok \in BOOLEAN, processed \in SUBSET gen.orders :
       IF ok
         THEN /\ orders' = BatchWriteOrders(orders, processed)
              /\ gen' = [gen EXCEPT !.orders = @ \ processed,
                                    !.phase = IF processed = gen.orders THEN "writeTrades"
                                                                       ELSE "writeOrders"]
         ELSE /\ orders' = orders
              /\ gen' = GenReturn(500)
  /\ UNCHANGED <<inbox, pc, local, log, notifs, response, trades, queue, chain, height,
                 calcIn, calcOut, events, admin, connections>>

\* one BatchWriteItem of batchWriteAll(TRADES_TABLE, trades)
GenWriteTrades ==
  /\ gen.phase = "writeTrades"
  /\ \E ok \in BOOLEAN, processed \in SUBSET gen.trades :
       IF ok
         THEN /\ trades' = BatchWriteTrades(trades, processed)
              /\ gen' = IF processed = gen.trades
                          THEN [GenReturn(200) EXCEPT !.trades = {}]
                          ELSE [gen EXCEPT !.trades = @ \ processed]
         ELSE /\ trades' = trades
              /\ gen' = GenReturn(500)
  /\ UNCHANGED <<inbox, pc, local, log, notifs, response, orders, queue, chain, height,
                 calcIn, calcOut, events, admin, connections>>

(***************************************************************************)
(* The asset registration handler: it sends registerAsset / unregisterAsset *)
(* transactions to the contract the settlements go to.                      *)
(***************************************************************************)
AdminRequest(method, action, symbol, tokenAddress) ==
  [method |-> method, action |-> action, symbol |-> symbol, tokenAddress |-> tokenAddress]

TokenAddress == Str(<<"0","x","t","o","k","e","n">>)

\* ethers.isAddress
isAddress(v) == v = TokenAddress

AdminRequests ==
  { AdminRequest("OPTIONS", Undefined, Undefined, Undefined),
    AdminRequest("POST", Str(<<"R","e","g","i","s","t","e","r">>),
                 Str(<<" ","b","t","c"," ">>), TokenAddress),
    AdminRequest("POST", Str(<<"r","e","g","i","s","t","e","r">>),
                 Str(<<"B","T","C">>), Str(<<"a","b","c">>)),
    AdminRequest("POST", Str(<<"r","e","g","i","s","t","e","r">>),
                 Str(<<"B","T","C">>), Undefined),
    AdminRequest("POST", Str(<<"r","e","g","i","s","t","e","r">>), Undefined, TokenAddress),
    AdminRequest("POST", Str(<<"u","n","r","e","g","i","s","t","e","r">>),
                 Str(<<"B","T","C">>), Undefined),
    AdminRequest("POST", Str(<<"u","n","r","e","g","i","s","t","e","r">>),
                 Str(<<" "," ">>), Undefined),
    AdminRequest("POST", Str(<<"d","e","l","e","t","e">>), Str(<<"B","T","C">>), Undefined),
    AdminRequest("POST", Undefined, Str(<<"B","T","C">>), Undefined),
    AdminRequest("POST", Num(<<"5">>), Str(<<"B","T","C">>), Undefined) }

AdminOff == [phase |-> "off", request |-> AdminRequest("", Undefined, Undefined, Undefined),
             txHash |-> NoText, statusCode |-> 0, status |-> "", blockNumber |-> 0]

\* payload.action?.toLowerCase() throws for an action that is present and has no
\* toLowerCase: a TypeError
adminActionThrows(request) == request.action.t \notin {"undefined", "string"}

\* payload.action?.toLowerCase()
adminAction(request) ==
  IF request.action.t = "string" THEN toLowerCase(request.action.s) ELSE NoText

\* toAssetId throws for a symbol that is missing, not a string or blank
toAssetIdThrows(symbol) == ~Truthy(symbol) \/ symbol.t # "string" \/ trim(symbol.s) = <<>>

\* toAssetId: ethers.id(symbol.trim().toUpperCase())
toAssetId(symbol) == ethersId(toUpperCase(trim(symbol.s)))

AdminReturn(code, status) == [admin EXCEPT !.phase = "done", !.statusCode = code, !.status = status]

\* the request is validated and the transaction sent
AdminSend ==
  /\ admin.phase = "start"
  /\ LET request == admin.request
         action  == adminAction(request)
         call    == IF action = <<"r","e","g","i","s","t","e","r">> THEN "registerAsset"
                                                                    ELSE "unregisterAsset"
         tx      == Transaction(call, toAssetId(request.symbol), <<>>,
                                IF call = "registerAsset" THEN request.tokenAddress.s ELSE NoText)
     IN  CASE request.method = "OPTIONS" ->
                /\ admin' = AdminReturn(200, "")
                /\ chain' = chain
           [] request.method # "OPTIONS" /\ adminActionThrows(request) ->
                /\ admin' = AdminReturn(500, "")
                /\ chain' = chain
           [] request.method # "OPTIONS"
              /\ ~adminActionThrows(request)
              /\ action # <<"r","e","g","i","s","t","e","r">>
              /\ action # <<"u","n","r","e","g","i","s","t","e","r">> ->
                /\ admin' = AdminReturn(400, "")
                /\ chain' = chain
           [] OTHER ->
                IF toAssetIdThrows(request.symbol)
                  THEN /\ admin' = AdminReturn(500, "")
                       /\ chain' = chain
                  ELSE IF call = "registerAsset"
                          /\ (~Truthy(request.tokenAddress) \/ ~isAddress(request.tokenAddress))
                  THEN /\ admin' = AdminReturn(400, "")
                       /\ chain' = chain
                  ELSE \E ok \in BOOLEAN :
                         IF ok
                           THEN /\ chain' = chain \cup {tx}
                                /\ admin' = [admin EXCEPT !.phase = "wait",
                                                          !.txHash = tx.tradeHash]
                           ELSE /\ chain' = chain
                                /\ admin' = AdminReturn(500, "")
  /\ UNCHANGED <<inbox, pc, local, log, notifs, response, orders, trades, queue, height,
                 calcIn, calcOut, events, gen, connections>>

\* tx.wait(Math.max(1, confirmations)); a failed wait leaves the transaction
\* reverted or still pending
AdminConfirm ==
  /\ admin.phase = "wait"
  /\ \E ok \in BOOLEAN, left \in {"reverted", "pending"}, block \in Blocks :
       LET Mine(tx) == tx.call # "settleBatch" /\ tx.tradeHash = admin.txHash
                       /\ tx.state = "pending"
       IN  IF ok
             THEN /\ chain' = {IF Mine(tx)
                                 THEN [tx EXCEPT !.state = "confirmed", !.blockNumber = block]
                                 ELSE tx : tx \in chain}
                  /\ height' = block
                  /\ admin' = [AdminReturn(200, IF \E tx \in chain :
                                                     Mine(tx) /\ tx.call = "registerAsset"
                                                  THEN "registered" ELSE "unregistered")
                                 EXCEPT !.blockNumber = block]
             ELSE /\ chain' = {IF Mine(tx) THEN [tx EXCEPT !.state = left] ELSE tx :
                                 tx \in chain}
                  /\ height' = height
                  /\ admin' = AdminReturn(500, "")
  /\ UNCHANGED <<inbox, pc, local, log, notifs, response, orders, trades, queue,
                 calcIn, calcOut, events, gen, connections>>

\* what runs beside the order invocations: nothing, the generator, or the asset
\* registration handler
Beside(small) ==
  \/ gen = GenOff /\ admin = AdminOff
  \/ /\ small
     /\ \/ /\ \E g \in GenRequests : gen = [GenOff EXCEPT !.phase = "start", !.request = g]
           /\ admin = AdminOff
        \/ /\ gen = GenOff
           /\ \E a \in AdminRequests : admin = [AdminOff EXCEPT !.phase = "start",
                                                                !.request = a]

Init ==
  /\ \E load \in Workloads :
       /\ PipelineIdle(load)
       /\ Beside(Len(load) = 1 /\ \E k \in 1..Len(CoreRequests) : load[1] = CoreRequests[k])
  /\ calcIn = NoOrder
  /\ calcOut = NoComputation
  /\ EventsIdle
  /\ connections = {}

Next ==
  \/ \E i \in Inv : Receive(i)
  \/ \E i \in Inv : PutOrder(i)
  \/ \E i \in Inv : AckReceived(i)
  \/ \E i \in Inv : PutTrade(i)
  \/ \E i \in Inv : Submit(i)
  \/ \E i \in Inv : Confirm(i)
  \/ \E i \in Inv : Enrich(i)
  \/ \E i \in Inv : Enqueue(i)
  \/ \E i \in Inv : ReportError(i)
  \/ \E i \in Inv : Final(i)
  \/ GenFetch
  \/ GenWriteOrders
  \/ GenWriteTrades
  \/ AdminSend
  \/ AdminConfirm

Spec == Init /\ [][Next]_vars

(***************************************************************************)
(* The same request handled twice, once on a connection where every        *)
(* delivery succeeds and once on a connection of any other behaviour.      *)
(***************************************************************************)
PairBodies ==
  { MarketOrder, LimitOrder, BadJson, NullBody,
    [MarketOrder EXCEPT !.symbol = Str(Chars("BTC"))],
    [MarketOrder EXCEPT !.qty = Undefined],
    [LimitOrder EXCEPT !.price = Str(Chars("abc"))] }

InitPair ==
  /\ \E h \in Handlers, b \in PairBodies, c \in ConnKinds \ {"open"} :
       /\ PipelineIdle(<< [handler |-> h, conn |-> "open", body |-> b],
                          [handler |-> h, conn |-> c, body |-> b] >>)
       /\ Beside(h = "matcher" /\ b = NullBody /\ c = "gone")
  /\ calcIn = NoOrder
  /\ calcOut = NoComputation
  /\ EventsIdle
  /\ connections = {}

SpecPair == InitPair /\ [][Next]_vars

(***************************************************************************)
(* The settlement calculator on its own: calculateBalanceUpdates applied   *)
(* to an order whose required fields passed validation.                    *)
(***************************************************************************)
CalcSymbols ==
  { Chars("BTC/USDT"), Chars("btc-usdt"), Chars("BTC"), Chars("XRP/USDT"),
    <<"E","T","H","_","U","S","D","T">>,
    <<"D","O","G","E","/","B","T","C">>,
    <<" ","s","o","l"," ","/"," ","u","s","d","t">>,
    <<"/","U","S","D","T">>,
    <<"B","T","C","/">>,
    <<"B","T","C","-","U","S","D","T","/","E","T","H">>,
    <<"B","T","C","/","U","S","D","T","/","E","T","H">>,
    <<"B","T","C","/","B","T","C">> }

CalcPrices ==
  { Num(Chars("50000")), Num(Chars("-5")), Str(Chars("abc")),
    Str(<<"0",".","5">>),
    Str(<<"0",".","0","0","0","1","5","5">>),
    Str(<<"-","0",".","0","0","0","1","5","5">>),
    Str(<<"0",".","1","2","3","4","5","6","7">>),
    Num(<<"1","e","-","7">>) }

CalcQtys ==
  { Num(Chars("0.01")), Num(<<"3">>), Num(<<"1",".","5">>),
    Str(<<"0",".","0","0","0","0","0","0","0","3">>),
    Str(<<".","5">>) }

CalcSides == {Undefined, Str(BUY), Str(SELL), Str(Chars("sell")), Str(Chars("hold")), Str(<<>>)}

CalcOrders ==
  {Body("object", Str(sy), pr, qt, Str(Chars("0xabc")), Str(Chars("market")), sd) :
     sy \in CalcSymbols, pr \in CalcPrices, qt \in CalcQtys, sd \in CalcSides}

InitCalc ==
  /\ PipelineIdle(<<>>)
  /\ gen = GenOff
  /\ admin = AdminOff
  /\ calcIn \in CalcOrders
  /\ calcOut = NoComputation
  /\ EventsIdle
  /\ connections = {}

Calculate ==
  /\ calcOut = NoComputation
  /\ calcOut' = calculateBalanceUpdates(calcIn)
  /\ UNCHANGED <<inbox, pc, local, log, notifs, response, orders, trades, queue, chain,
                 height, calcIn, events, beside>>

NextCalc == Calculate

SpecCalc == InitCalc /\ [][NextCalc]_vars


(***************************************************************************)
(* The event processor (one invocation per batch of queue records) and the *)
(* price feed (one invocation per tick).  Both broadcast to the connections *)
(* of the connections table.                                               *)
(***************************************************************************)
\* bounds of the batches and of the connections table
MaxBatch == 2

MaxConns == 2

SeqsUpTo(S, n) == UNION {[1..m -> S] : m \in 0..n}

Unknown == <<"u","n","k","n","o","w","n">>

\* JSON.parse(record.body) of a queue record
EpTrade(tradeId, type) ==
  [tradeId |-> tradeId, type |-> type, symbol |-> Str(Chars("BTC/USDT")),
   qty |-> Num(Chars("0.01")), price |-> Num(Chars("50000"))]

EpTrades ==
  { EpTrade(Str(<<"t","1">>), Str(Chars("market"))),
    EpTrade(Undefined, Undefined) }

Batches == SeqsUpTo(EpTrades, MaxBatch) \ {<<>>}

\* the connection ids there are, and how each behaves when it is posted to
ConnIds == 1..MaxConns

Sockets == [ConnIds -> ConnKinds \ {"none"}]

\* the Items of a ScanCommand on the connections table
ScanItems(tbl) == SelectSeq([c \in ConnIds |-> c], LAMBDA c : c \in tbl)

\* the connect handler: PutItem of the connection id (a rejected PutItem, or one
\* of an id already there, leaves the table as it is)
Connect ==
  /\ \E c \in ConnIds \ connections : connections' = connections \cup {c}
  /\ UNCHANGED <<pipeline, events, gen, admin>>

\* the disconnect handler: DeleteItem of the connection id (a rejected DeleteItem,
\* or one of an id not there, leaves the table as it is)
Disconnect ==
  /\ \E c \in connections : connections' = connections \ {c}
  /\ UNCHANGED <<pipeline, events, gen, admin>>

\* `Trade ${trade.tradeId || 'unknown'} (${trade.type || 'unknown'}) executed: ...`
TradeMessage(trade) ==
  [tradeId |-> IF Truthy(trade.tradeId) THEN ToStringOf(trade.tradeId) ELSE Unknown,
   type |-> IF Truthy(trade.type) THEN ToStringOf(trade.type) ELSE Unknown,
   symbol |-> ToStringOf(trade.symbol), qty |-> ToStringOf(trade.qty),
   price |-> ToStringOf(trade.price)]

\* { type: "TRADE", trade }: the payload has no channel field
TradeNotice(trade) == [channel |-> "", type |-> "TRADE", body |-> trade]

Posted(by, rec, to, payload, outcome) ==
  [by |-> by, rec |-> rec, to |-> to, channel |-> payload.channel, type |-> payload.type,
   body |-> payload.body, delivery |-> outcome]

\* the next iteration of `for (const record of event.Records)`
EpNextRecord(e) ==
  IF e.rec < Len(e.records)
    THEN [e EXCEPT !.rec = @ + 1, !.phase = "publish", !.k = 0]
    ELSE [e EXCEPT !.phase = "done", !.k = 0]

\* sns.send(PublishCommand); a rejection leaves the handler
EpPublish ==
  /\ ep.phase = "publish"
  /\ \E ok \in BOOLEAN :
       IF ok
         THEN /\ topic' = Append(topic, [rec |-> ep.rec,
                                          message |-> TradeMessage(ep.records[ep.rec])])
              /\ ep' = [ep EXCEPT !.phase = "scan"]
         ELSE /\ topic' = topic
              /\ ep' = [ep EXCEPT !.phase = "failed"]
  /\ UNCHANGED <<pipeline, beside, pushes, feed>>

\* ddb.send(ScanCommand) of the record: the table as it is now; a rejection
\* leaves the handler; connections.Items || []
EpScan ==
  /\ ep.phase = "scan"
  /\ \E ok \in BOOLEAN :
       LET items   == ScanItems(connections)
           scanned == [ep EXCEPT !.scans = Append(@, items)]
       IN  ep' = IF ~ok THEN [ep EXCEPT !.phase = "failed"]
                 ELSE IF Len(items) = 0 THEN EpNextRecord(scanned)
                 ELSE [scanned EXCEPT !.phase = "push", !.k = 1]
  /\ UNCHANGED <<pipeline, beside, topic, pushes, feed>>

\* mutant: a failed post ends the pushes of the record
EpPush_StopsOnFailure ==
  /\ ep.phase = "push"
  /\ LET items == ep.scans[ep.rec]
     IN  \E d \in DeliveryOutcomes(ep.sockets[items[ep.k]]) :
           /\ pushes' = Append(pushes, Posted("eventProcessor", ep.rec, items[ep.k],
                                               TradeNotice(ep.records[ep.rec]), d))
           /\ ep' = IF ep.k < Len(items) /\ d = "sent"
                      THEN [ep EXCEPT !.k = @ + 1]
                      ELSE EpNextRecord(ep)
  /\ UNCHANGED <<pipeline, beside, topic, feed>>

\* mgmt.send(PostToConnectionCommand) inside try/catch: every error is ignored
EpPush ==
  /\ ep.phase = "push"
  /\ LET items == ep.scans[ep.rec]
     IN  \E d \in DeliveryOutcomes(ep.sockets[items[ep.k]]) :
           /\ pushes' = Append(pushes, Posted("eventProcessor", ep.rec, items[ep.k],
                                               TradeNotice(ep.records[ep.rec]), d))
           /\ ep' = IF ep.k < Len(items) THEN [ep EXCEPT !.k = @ + 1] ELSE EpNextRecord(ep)
  /\ UNCHANGED <<pipeline, beside, topic, feed>>

\* Object.keys(binanceSymbolConfigs): the keys of DEFAULT_SYMBOL_MAP
FeedSymbols == DEFAULT_SYMBOL_MAP

\* what the exchange answers: the symbols it returns a ticker with a price for
FeedTickers ==
  { {}, {<<"B","T","C">>},
    {FeedSymbols[k] : k \in 1..Len(FeedSymbols)} \ {<<"E","T","H">>},
    {FeedSymbols[k] : k \in 1..Len(FeedSymbols)} }

\* priceMessages.push({ type: "PRICE", channel: "prices", symbol, ... })
PriceMessage(symbol) == [channel |-> "prices", type |-> "PRICE", body |-> symbol]

\* fetchTicker24h and buildMarketData: a failed fetch builds no message, a symbol
\* without ticker or price is left out; broadcastPrices returns at once without
\* messages
FeedFetch ==
  /\ feed.phase = "fetch"
  /\ \E ok \in BOOLEAN :
       LET Built(symbol) == ok /\ symbol \in feed.ticker
           built    == SelectSeq(FeedSymbols, Built)
           messages == [n \in 1..Len(built) |-> PriceMessage(built[n])]
       IN  feed' = [feed EXCEPT !.messages = messages,
                                !.published = Len(messages),
                                !.phase = IF Len(messages) = 0 THEN "done" ELSE "scan"]
  /\ UNCHANGED <<pipeline, beside, ep, topic, pushes>>

\* the scan of broadcastPrices; a rejection leaves the handler
FeedScan ==
  /\ feed.phase = "scan"
  /\ \E ok \in BOOLEAN :
       LET items == ScanItems(connections)
       IN  feed' = IF ~ok THEN [feed EXCEPT !.phase = "failed"]
                   ELSE IF Len(items) = 0 THEN [feed EXCEPT !.phase = "done"]
                   ELSE [feed EXCEPT !.phase = "post", !.conns = items,
                                     !.at = [c \in 1..Len(items) |-> 1]]
  /\ UNCHANGED <<pipeline, beside, ep, topic, pushes>>

\* one post of Promise.allSettled(connections.Items.map(...)): the connections
\* advance independently; a 410 ends the posts to that connection, any other
\* error is logged and the next message is posted
FeedPost ==
  /\ feed.phase = "post"
  /\ \E c \in 1..Len(feed.conns) :
       /\ feed.at[c] <= Len(feed.messages)
       /\ \E d \in DeliveryOutcomes(feed.sockets[feed.conns[c]]) :
            LET at      == [feed.at EXCEPT ![c] = IF d = "gone" THEN Len(feed.messages) + 1
                                                   ELSE @ + 1]
                message == feed.messages[feed.at[c]]
            IN  feed' = [feed EXCEPT
                           !.at = at,
                           !.posted = @ \cup {[to |-> feed.conns[c], n |-> feed.at[c],
                                                channel |-> message.channel,
                                                type |-> message.type,
                                                body |-> message.body]},
                           !.phase = IF \A x \in 1..Len(at) : at[x] > Len(feed.messages)
                                       THEN "done" ELSE "post"]
  /\ UNCHANGED <<pipeline, beside, ep, topic, pushes>>

\* one handler is invoked: the event processor with a batch, or the price feed;
\* connections come and go meanwhile
InitEvents ==
  /\ PipelineIdle(<<>>)
  /\ gen = GenOff
  /\ admin = AdminOff
  /\ calcIn = NoOrder
  /\ calcOut = NoComputation
  /\ topic = <<>>
  /\ pushes = <<>>
  /\ connections \in SUBSET ConnIds
  /\ \E sockets \in Sockets :
       \/ /\ \E r \in Batches :
               ep = [EpIdle EXCEPT !.records = r, !.sockets = sockets, !.rec = 1,
                                   !.phase = "publish"]
          /\ feed = FeedIdle
       \/ /\ ep = EpIdle
          /\ \E t \in FeedTickers :
               feed = [FeedIdle EXCEPT !.phase = "fetch", !.ticker = t, !.sockets = sockets]

NextEvents ==
  \/ Connect
  \/ Disconnect
  \/ EpPublish
  \/ EpScan
  \/ EpPush
  \/ FeedFetch
  \/ FeedScan
  \/ FeedPost

SpecEvents == InitEvents /\ [][NextEvents]_vars

(***************************************************************************)
(* Vocabulary of the properties                                            *)
(***************************************************************************)
Done(i) == pc[i] = "done"

Attempted(i, name) == \E k \in 1..Len(log[i]) : log[i][k].step = name

HasStep(i, name, ok) == \E k \in 1..Len(log[i]) : log[i][k].step = name /\ log[i][k].ok = ok

\* how many of the payloads handed to the sink by invocation i have a type in T
CountTypes(i, T) == Cardinality({k \in 1..Len(notifs[i]) : notifs[i][k].type \in T})

FinalTypes == {"ORDER_STORED", "ORDER_MATCHED", "ORDER_ERROR"}

OrdersOf(i) == {o \in orders : o.orderId = local[i].orderId}

TradesOf(i) == {t \in trades : t.orderId = local[i].orderId}

MessagesOf(i) == {m \in queue : m.orderId = local[i].orderId}

\* BigInt(text) of an amount string
AmountOf(text) ==
  IF Len(text) > 0 /\ text[1] = "-" THEN BigOf(TRUE, DigitsOf(Tail(text)))
  ELSE BigOf(FALSE, DigitsOf(text))

\* the text is a decimal number greater than zero
IsPositiveDecimal(text) ==
  /\ IsNumberText(text)
  /\ text[1] # "-"
  /\ \E k \in 1..Len(text) : text[k] \in {"1","2","3","4","5","6","7","8","9"}

CalcDone == calcOut # NoComputation

(***************************************************************************)
(* C1 .. C10                                                               *)
(***************************************************************************)

\* C1: every finished invocation has handed exactly one notification of type
\* ORDER_STORED, ORDER_MATCHED or ORDER_ERROR to the requester's connection.
\* Violated: the order storage failure branch posts {status, message} without a type.
C1_ExactlyOneFinalNotification ==
  \A i \in Inv : Done(i) => CountTypes(i, FinalTypes) = 1

\* C2: when an invocation has finished, its Order is FILLED if and only if exactly
\* one Trade referencing its orderId is stored.
\* Violated: the Order is written FILLED before the trade write, which may fail.
C2_FilledIffOneTrade ==
  \A i \in Inv : Done(i) =>
    \A o \in OrdersOf(i) : (o.status = "FILLED") <=> (Cardinality(TradesOf(i)) = 1)

\* C3: for an order of side BUY or SELL the buyer (owner for BUY, counterparty for
\* SELL) gets -quoteAmount of the quote asset and +baseAmount of the base asset, the
\* seller +quoteAmount and -baseAmount.
\* Violated for SELL: the code swaps the accounts and the signs, so the owner of a
\* SELL order is moved exactly like the owner of a BUY order.
C3_BuyerPaysQuoteSellerDeliversBase ==
  (CalcDone /\ calcOut.ok /\ calcIn.side \in {Str(BUY), Str(SELL)}) =>
    LET owner  == ToStringOf(calcIn.owner)
        buyer  == IF calcIn.side = Str(BUY) THEN owner ELSE opposingWalletAddress
        seller == IF calcIn.side = Str(BUY) THEN opposingWalletAddress ELSE owner
        has(account, symbol, amount) ==
          \E k \in 1..Len(calcOut.balanceUpdates) :
            calcOut.balanceUpdates[k] =
              [account |-> account, assetId |-> assetIds(symbol), amount |-> BigToString(amount)]
    IN  /\ has(buyer, calcOut.quoteSymbol, BigNeg(calcOut.quoteAmount))
        /\ has(buyer, calcOut.baseSymbol, calcOut.baseAmount)
        /\ has(seller, calcOut.quoteSymbol, calcOut.quoteAmount)
        /\ has(seller, calcOut.baseSymbol, BigNeg(calcOut.baseAmount))

\* C4: a successful calculation yields exactly four balance updates: for the quote
\* asset and for the base asset one update per counterparty, whose signed amounts
\* sum to zero.
C4_FourUpdatesSumToZero ==
  (CalcDone /\ calcOut.ok) =>
    LET u      == calcOut.balanceUpdates
        owner  == ToStringOf(calcIn.owner)
    IN  /\ Len(u) = 4
        /\ u[1].assetId = assetIds(calcOut.quoteSymbol) /\ u[3].assetId = assetIds(calcOut.quoteSymbol)
        /\ u[2].assetId = assetIds(calcOut.baseSymbol) /\ u[4].assetId = assetIds(calcOut.baseSymbol)
        /\ u[1].account = u[2].account /\ u[3].account = u[4].account
        /\ {u[1].account, u[3].account} = {owner, opposingWalletAddress}
        /\ AmountOf(u[1].amount) = BigNeg(AmountOf(u[3].amount))
        /\ AmountOf(u[2].amount) = BigNeg(AmountOf(u[4].amount))

C4_Witness ==
  /\ CalcDone /\ calcOut.ok
  /\ calcIn.side = Str(SELL)
  /\ calcOut.quoteAmount # BigZero
  /\ calcOut.baseAmount # BigZero

\* the decimal text as a fraction: its digits without sign and point, and the
\* number of digits after the point
TextNegative(text) == Len(text) > 0 /\ text[1] = "-"

TextDigits(text) == StripZeros(DigitsOf(SelectSeq(text, LAMBDA c : c \notin {"-", "."})))

TextFractionLen(text) == IF includes(text, ".") THEN Len(text) - FirstSep(text, ".") ELSE 0

\* value = text * 10^decimals, stated without division: value * 10^f = digits * 10^decimals
IsScaled(value, text, decimals) ==
  /\ MagMul(value.mag, Pow10Big(TextFractionLen(text)).mag)
       = MagMul(TextDigits(text), Pow10Big(decimals).mag)
  /\ value.neg = (TextNegative(text) /\ value.mag # <<0>>)

RECURSIVE MagValue(_)
\* the number a short magnitude stands for
MagValue(mag) == IF Len(mag) = 0 THEN 0 ELSE 10 * MagValue(SubSeq(mag, 1, Len(mag) - 1)) + mag[Len(mag)]

\* C5: baseAmount is the quantity scaled by 10^baseDecimals, and quoteAmount is
\* (baseAmount * priceScaled) / 10^baseDecimals truncated toward zero, priceScaled
\* being the price scaled by 10^quoteDecimals; BTC/USDT at price 50000 and quantity
\* 0.01 gives base amount 1000000 and quote amount 500000000.
C5_ScaledAmounts ==
  (CalcDone /\ calcOut.ok) =>
    LET bd       == assetDecimals(calcOut.baseSymbol)
        qd       == assetDecimals(calcOut.quoteSymbol)
        base     == calcOut.baseAmount
        quote    == calcOut.quoteAmount
        price    == toBigInt(calcIn.price, qd).value
        product  == MagMul(base.mag, price.mag)
    IN  /\ IsScaled(base, ToStringOf(calcIn.qty), bd)
        /\ IsScaled(price, ToStringOf(calcIn.price), qd)
        \* truncation toward zero: the magnitude loses its last bd digits
        /\ IF Len(product) > bd
             THEN quote.mag = SubSeq(product, 1, Len(product) - bd)
             ELSE quote = BigZero
        /\ quote.neg = (base.neg # price.neg /\ quote.mag # <<0>>)
        \* where the numbers fit the integers of TLC: plain integer division
        /\ (Len(product) <= 9 /\ bd <= 9) =>
             MagValue(quote.mag) = (MagValue(base.mag) * MagValue(price.mag)) \div (10 ^ bd)
        /\ (/\ ToStringOf(calcIn.symbol) = Chars("BTC/USDT")
            /\ calcIn.price = Num(Chars("50000"))
            /\ calcIn.qty = Num(Chars("0.01"))) =>
             /\ base = [neg |-> FALSE, mag |-> <<1,0,0,0,0,0,0>>]
             /\ quote = [neg |-> FALSE, mag |-> <<5,0,0,0,0,0,0,0,0>>]

\* a division that truncates: 0.01 BTC at -0.000155 USDT is -1.55 units, giving -1
C5_Witness ==
  /\ CalcDone /\ calcOut.ok
  /\ calcOut.quoteAmount = [neg |-> TRUE, mag |-> <<1>>]
  /\ calcOut.baseAmount = [neg |-> FALSE, mag |-> <<1,0,0,0,0,0,0>>]
  /\ ToStringOf(calcIn.price) = <<"-","0",".","0","0","0","1","5","5">>

\* ToBoolean(v) is false
Falsy(v) ==
  \/ v.t = "undefined"
  \/ v.t = "string" /\ Len(v.s) = 0
  \/ v.t = "number" /\ v.s = <<"0">>

TypeAccepted(v) == v.t = "string" /\ toLowerCase(v.s) \in {Chars("limit"), Chars("market")}

\* the required fields that are missing or invalid in the payload
InvalidFields(body) ==
  (IF Falsy(body.symbol) THEN {"symbol"} ELSE {})
  \cup (IF Falsy(body.price) \/ ~IsPositiveDecimal(ToStringOf(body.price)) THEN {"price"} ELSE {})
  \cup (IF Falsy(body.qty) \/ ~IsPositiveDecimal(ToStringOf(body.qty)) THEN {"qty"} ELSE {})
  \cup (IF Falsy(body.owner) THEN {"owner"} ELSE {})
  \cup (IF ~TypeAccepted(body.type) THEN {"type (limit or market)"} ELSE {})

\* the payload fails JSON parsing (a text JSON.parse rejects) or fails the
\* validation: it is no object with fields (null or absent), or one of symbol,
\* price, qty, owner and type is missing or invalid
Rejected(body) ==
  \/ body.kind \in {"badjson", "null"}
  \/ body.kind = "object" /\ InvalidFields(body) # {}

\* nothing in storage, on the queue or on the chain stems from invocation i
NoRecordOf(i) ==
  /\ \A o \in orders : o.orderId # randomUUID(i, 1)
  /\ \A t \in trades : t.orderId # randomUUID(i, 1) /\ t.tradeId # randomUUID(i, 2)
  /\ \A m \in queue : m.orderId # randomUUID(i, 1) /\ m.tradeId # randomUUID(i, 2)
  /\ \A tx \in chain : tx.tradeHash # ethersId(randomUUID(i, 2))

\* C6: an invocation whose payload fails JSON parsing or the validation of symbol,
\* price, qty, owner or type attempts no order write, trade write, settlement call or
\* enqueue, hands exactly one notification to the sink, an ORDER_ERROR (so no
\* ORDER_RECEIVED), and returns status 400.
\* Violated: a price or quantity that is not a positive decimal passes the
\* truthiness test and the order is written (see C7); a null payload throws in
\* the validation and the invocation returns 500.
C6_RejectedWithoutEffects ==
  \A i \in Inv : (Done(i) /\ Rejected(inbox[i].body)) =>
    /\ \A k \in 1..Len(log[i]) : log[i][k].step = "notify"
    /\ NoRecordOf(i)
    /\ Len(notifs[i]) = 1
    /\ notifs[i][1].type = "ORDER_ERROR"
    /\ response[i].statusCode = 400

\* C7: every stored Order has a price and a quantity that are decimals greater than
\* zero, because intake validation rejects every other price and quantity.
\* Violated: validation tests price and qty for truthiness only; -5 is stored.
C7_PersistedPriceAndQtyPositive ==
  \A o \in orders : IsPositiveDecimal(o.price) /\ IsPositiveDecimal(o.qty)

\* C8: when a non-empty set of required fields is missing or invalid, the invocation
\* ends with a validation message that names exactly the fields of that set.
\* Violated: a negative or non-numeric price or quantity is never named (see C7).
C8_MessageNamesEveryInvalidField ==
  \A i \in Inv :
    (Done(i) /\ inbox[i].body.kind = "object" /\ InvalidFields(inbox[i].body) # {}) =>
      /\ Len(notifs[i]) = 1
      /\ notifs[i][1].message.text = "Missing required fields: "
      /\ {notifs[i][1].message.arg[k] : k \in 1..Len(notifs[i][1].message.arg)}
           = InvalidFields(inbox[i].body)

\* C9: every stored Order, stored Trade and queued trade message has side BUY or SELL;
\* an absent or unrecognized side is recorded as BUY.
\* Violated: `order.side || "BUY"` stores any non-empty side as it was sent.
C9_RecordedSideIsBuyOrSell ==
  /\ \A o \in orders : o.side \in {BUY, SELL}
  /\ \A t \in trades : t.side \in {BUY, SELL}
  /\ \A m \in queue : m.side \in {BUY, SELL}

SettlementFailedIn(i) == HasStep(i, "submit", FALSE) \/ HasStep(i, "confirm", FALSE)

ErrorMessages(i) ==
  {notifs[i][k].message : k \in {n \in 1..Len(notifs[i]) : notifs[i][n].type = "ORDER_ERROR"}}

StorageFailureMessages == {Fixed("Failed to store order"), Fixed("Failed to store trade")}

\* C10: an invocation whose settlement submission or confirmation wait failed ends
\* with its Order FILLED, its Trade stored without settlementTxHash and
\* settlementBlockNumber, nothing enqueued, no ORDER_MATCHED, and exactly one
\* ORDER_ERROR, whose message is not a storage failure message and is not the message
\* of any invocation that ended with another error.
C10_SettlementFailureOutcome ==
  \A i \in Inv : (Done(i) /\ SettlementFailedIn(i)) =>
    /\ \E o \in OrdersOf(i) : OrdersOf(i) = {o} /\ o.status = "FILLED"
    /\ \E t \in TradesOf(i) :
         /\ TradesOf(i) = {t}
         /\ t.tradeId = local[i].tradeId
         /\ t.settlementTxHash = NoText
         /\ t.settlementBlockNumber = 0
    /\ MessagesOf(i) = {}
    /\ ~Attempted(i, "enrich") /\ ~Attempted(i, "enqueue")
    /\ CountTypes(i, {"ORDER_MATCHED"}) = 0
    /\ CountTypes(i, {"ORDER_ERROR"}) = 1
    /\ ErrorMessages(i) \cap StorageFailureMessages = {}
    /\ \A j \in Inv : (Done(j) /\ ~SettlementFailedIn(j)) => ErrorMessages(j) \cap ErrorMessages(i) = {}

C10_Witness ==
  \E i \in Inv :
    /\ Done(i)
    /\ HasStep(i, "submit", TRUE)
    /\ HasStep(i, "confirm", FALSE)
    /\ response[i].statusCode = 502

ConfirmedSettlementOf(i) ==
  {tx \in chain : tx.tradeHash = TradeHash(i) /\ tx.state = "confirmed"}

EnqueueJustFailed(i) == log[i] # <<>> /\ log[i][Len(log[i])] = Step("enqueue", FALSE)

\* C11: when the enqueue fails after a confirmed settlement, the failing enqueue
\* posts nothing and the catch block that follows ends the invocation with
\* exactly one ORDER_ERROR, whose message is not the settlement failure message,
\* and no ORDER_MATCHED; neither step changes the chain (the confirmed settlement
\* stays), the orders, the trades (the settlement reference a trade carries
\* stays) or the queue.
C11_EnqueueFailureOutcome ==
  [][\A i \in Inv :
       /\ ( /\ pc[i] = "enqueue" /\ pc'[i] # "enqueue"
            /\ HasStep(i, "confirm", TRUE) /\ HasStep(i, "enqueue", FALSE)' )
            => /\ pc'[i] = "reportError"
               /\ ConfirmedSettlementOf(i) # {}
               /\ notifs' = notifs
               /\ chain' = chain /\ orders' = orders /\ trades' = trades /\ queue' = queue
       /\ ( /\ pc[i] = "reportError" /\ pc'[i] # "reportError"
            /\ HasStep(i, "confirm", TRUE) /\ EnqueueJustFailed(i) ) =>
         /\ pc'[i] = "done"
         /\ ConfirmedSettlementOf(i) # {}
         /\ Len(notifs'[i]) = Len(notifs[i]) + 1
         /\ notifs'[i][Len(notifs'[i])].type = "ORDER_ERROR"
         /\ notifs'[i][Len(notifs'[i])].message # SettlementFailed
         /\ notifs'[i][Len(notifs'[i])].message \notin StorageFailureMessages
         /\ Cardinality({k \in 1..Len(notifs'[i]) : notifs'[i][k].type = "ORDER_ERROR"}) = 1
         /\ \A k \in 1..Len(notifs'[i]) : notifs'[i][k].type # "ORDER_MATCHED"
         /\ chain' = chain
         /\ orders' = orders
         /\ trades' = trades
         /\ queue' = queue
         /\ \E o \in orders' : o.orderId = local[i].orderId /\ o.status = "FILLED"
         /\ \E t \in trades' :
              /\ t.tradeId = local[i].tradeId
              /\ HasStep(i, "enrich", TRUE) =>
                   /\ t.settlementTxHash = local[i].receipt.hash
                   /\ t.settlementBlockNumber = local[i].receipt.blockNumber]_vars

C11_Witness ==
  \E i \in Inv :
    /\ Done(i)
    /\ HasStep(i, "confirm", TRUE)
    /\ HasStep(i, "enrich", TRUE)
    /\ HasStep(i, "enqueue", FALSE)
    /\ response[i].statusCode = 500
    /\ ConfirmedSettlementOf(i) # {}

\* C12: once the update that attaches the settlement reference has failed after a
\* confirmed settlement, the next step of the invocation is the enqueue; no
\* ORDER_ERROR is emitted for the failed update (the only error message such an
\* invocation can carry is that of a failed enqueue), and when the enqueue
\* succeeds the invocation ends with ORDER_MATCHED, status 200 and its trade queued.
C12_EnrichmentFailureIgnored ==
  \A i \in Inv : (HasStep(i, "confirm", TRUE) /\ HasStep(i, "enrich", FALSE)) =>
    /\ pc[i] \in {"enqueue", "reportError", "final", "done"}
    /\ pc[i] = "reportError" => EnqueueJustFailed(i)
    /\ \A k \in 1..Len(log[i]) :
         (log[i][k].step = "enrich" /\ k < Len(log[i])) => log[i][k + 1].step = "enqueue"
    /\ Done(i) => Attempted(i, "enqueue")
    /\ ErrorMessages(i) \subseteq {EnqueueFailed}
    /\ HasStep(i, "enqueue", FALSE) \/ CountTypes(i, {"ORDER_ERROR"}) = 0
    /\ (Done(i) /\ HasStep(i, "enqueue", TRUE)) =>
         /\ CountTypes(i, {"ORDER_MATCHED"}) = 1
         /\ notifs[i][Len(notifs[i])].type = "ORDER_MATCHED"
         /\ response[i].statusCode = 200
         /\ response[i].matched
         /\ \E m \in MessagesOf(i) : m.tradeId = local[i].tradeId

C12_Witness ==
  \E i \in Inv :
    /\ Done(i)
    /\ HasStep(i, "confirm", TRUE)
    /\ HasStep(i, "enrich", FALSE)
    /\ HasStep(i, "enqueue", TRUE)
    /\ response[i].statusCode = 200

PipelineSteps == {"tradeWrite", "compute", "submit", "confirm", "enrich", "enqueue"}

\* C13: an invocation whose Order write failed is in its catch block or has
\* ended; in the catch block it has posted nothing yet; once ended it has handed
\* exactly one message to the requester's connection, the error "Failed to store
\* order", and returned status 500; at no time has it emitted ORDER_RECEIVED,
\* attempted a trade write, computation, settlement call, enrichment or enqueue,
\* or left a record.
C13_OrderWriteFailureStops ==
  \A i \in Inv : HasStep(i, "orderWrite", FALSE) =>
    /\ pc[i] \in {"reportError", "done"}
    /\ pc[i] = "reportError" => notifs[i] = <<>>
    /\ Done(i) =>
         /\ Len(notifs[i]) = 1
         /\ notifs[i][1].status = "ERROR"
         /\ notifs[i][1].message = Fixed("Failed to store order")
         /\ response[i].statusCode = 500
    /\ CountTypes(i, {"ORDER_RECEIVED", "ORDER_MATCHED", "ORDER_STORED"}) = 0
    /\ \A name \in PipelineSteps : ~Attempted(i, name)
    /\ OrdersOf(i) = {} /\ TradesOf(i) = {} /\ MessagesOf(i) = {}
    /\ \A tx \in chain : tx.tradeHash # TradeHash(i)

C13_Witness ==
  \E i \in Inv :
    /\ Done(i)
    /\ HasStep(i, "orderWrite", FALSE)
    /\ inbox[i].body.type = Str(Chars("MARKET"))
    /\ PutAccepted(OrderItem(inbox[i].body, local[i].orderId, local[i].orderType, local[i].status))

IsMarket(i) ==
  /\ inbox[i].body.kind = "object"
  /\ orderTypeOf(inbox[i].body) = Str(Chars("market"))

\* C14: an order whose type is market in any letter case and whose Order write
\* succeeded is matched: its Order is stored as FILLED, after the acknowledgement
\* it goes to the trade write, and it never carries an ORDER_STORED notification;
\* every Order stored as PENDING is a limit order.
C14_MarketAlwaysMatched ==
  /\ \A i \in Inv : (IsMarket(i) /\ HasStep(i, "orderWrite", TRUE)) =>
       /\ local[i].matched
       /\ \E o \in OrdersOf(i) : OrdersOf(i) = {o} /\ o.status = "FILLED"
       /\ pc[i] \notin {"ackReceived"} => (pc[i] = "putTrade" \/ Attempted(i, "tradeWrite"))
       /\ CountTypes(i, {"ORDER_STORED"}) = 0
       /\ Done(i) => ~(response[i].statusCode = 200 /\ ~response[i].matched)
  /\ \A o \in orders : o.status = "PENDING" => o.type = Chars("limit")

C14_Witness ==
  \E i \in Inv :
    /\ Done(i)
    /\ inbox[i].body.type = Str(Chars("MARKET"))
    /\ HasStep(i, "orderWrite", TRUE)
    /\ HasStep(i, "tradeWrite", TRUE)
    /\ CountTypes(i, {"ORDER_MATCHED"}) = 1

TypesOf(i) == [k \in 1..Len(notifs[i]) |-> notifs[i][k].type]

\* C15: an unmatched order whose Order write succeeded is a limit order; its Order
\* is stored as PENDING; when the invocation has ended it has attempted no trade
\* write, settlement call or enqueue, left no trade, no queue message and no
\* transaction, emitted ORDER_RECEIVED then ORDER_STORED and nothing else, and
\* returned status 200 with matched = false.
C15_UnmatchedLimitOrder ==
  \A i \in Inv : (HasStep(i, "orderWrite", TRUE) /\ ~local[i].matched) =>
    /\ local[i].orderType = Chars("limit")
    /\ \E o \in OrdersOf(i) : OrdersOf(i) = {o} /\ o.status = "PENDING"
    /\ \A name \in PipelineSteps : ~Attempted(i, name)
    /\ TradesOf(i) = {} /\ MessagesOf(i) = {}
    /\ \A tx \in chain : tx.tradeHash # TradeHash(i)
    /\ pc[i] \in {"ackReceived", "final", "done"}
    /\ Done(i) =>
         /\ TypesOf(i) = <<"ORDER_RECEIVED", "ORDER_STORED">>
         /\ response[i].statusCode = 200
         /\ ~response[i].matched

C15_Witness ==
  \E i \in Inv :
    /\ Done(i)
    /\ HasStep(i, "orderWrite", TRUE)
    /\ ~local[i].matched
    /\ inbox[i].handler = "settlement"
    /\ response[i].statusCode = 200

CountSteps(i, name) == Cardinality({k \in 1..Len(log[i]) : log[i][k].step = name})

ComputationErrors ==
  {"Unable to parse trading pair symbol: ", "Unsupported asset symbol: ",
   "invalid FixedNumber string value", "too many decimals for format"}

\* C16: an invocation whose computation of the balance updates failed is in its
\* catch block or has ended: it computed once, made no settlement call and no
\* enqueue (no transaction and no queue message of it exist) and emitted no
\* ORDER_MATCHED; in the catch block it has emitted no ORDER_ERROR yet, and once
\* ended exactly one, carrying the error of the computation.
C16_ComputeFailureStops ==
  \A i \in Inv : HasStep(i, "compute", FALSE) =>
    /\ pc[i] \in {"reportError", "done"}
    /\ local[i].matched
    /\ CountSteps(i, "compute") = 1
    /\ \A name \in {"submit", "confirm", "enrich", "enqueue"} : ~Attempted(i, name)
    /\ \A tx \in chain : tx.tradeHash # TradeHash(i)
    /\ MessagesOf(i) = {}
    /\ CountTypes(i, {"ORDER_ERROR"}) = (IF Done(i) THEN 1 ELSE 0)
    /\ CountTypes(i, {"ORDER_MATCHED", "ORDER_STORED"}) = 0
    /\ Done(i) => ErrorMessages(i) = {calculateBalanceUpdates(inbox[i].body).error}
    /\ \A e \in ErrorMessages(i) : e.text \in ComputationErrors

C16_Witness ==
  \E i \in Inv :
    /\ Done(i)
    /\ HasStep(i, "compute", FALSE)
    /\ parseTradingPair(ToStringOf(inbox[i].body.symbol)).ok
    /\ response[i].statusCode = 400

IsPipelineStep(e) == e.step # "notify"

\* the writes, computation, settlement calls and enqueue of an invocation, in order,
\* each with its outcome
Pipeline(i) == SelectSeq(log[i], IsPipelineStep)

AllDelivered(i) == \A k \in 1..Len(notifs[i]) : notifs[i][k].delivery = "sent"

MinLen(a, b) == IF Len(a) <= Len(b) THEN Len(a) ELSE Len(b)

\* the services answered the two invocations alike: same match decision, and the
\* same outcome for the k-th operation of each
SameAnswers(i, j) ==
  /\ local[i].matched = local[j].matched
  /\ \A k \in 1..MinLen(Pipeline(i), Pipeline(j)) : Pipeline(i)[k].ok = Pipeline(j)[k].ok

RecordShape(i) ==
  [orders |-> {o.status : o \in OrdersOf(i)},
   trades |-> {t.settlementBlockNumber # 0 : t \in TradesOf(i)},
   queued |-> MessagesOf(i) # {},
   submitted |-> \E tx \in chain : tx.tradeHash = TradeHash(i)]

\* C17: of two invocations with the same request that the services answer alike,
\* one with every delivery succeeding and one with any pattern of failed, gone or
\* skipped deliveries, the sequences of writes, settlement calls and enqueue agree
\* step by step; when both have ended the sequences are equal, so are the
\* notifications attempted, the status codes and the records left behind.
C17_DeliveryFailuresDoNotChangePipeline ==
  \A i \in Inv, j \in Inv :
    ( /\ inbox[i].body = inbox[j].body
      /\ inbox[i].handler = inbox[j].handler
      /\ AllDelivered(i)
      /\ SameAnswers(i, j) ) =>
      /\ \A k \in 1..MinLen(Pipeline(i), Pipeline(j)) : Pipeline(i)[k] = Pipeline(j)[k]
      /\ (Done(i) /\ Done(j)) =>
           /\ Pipeline(i) = Pipeline(j)
           /\ TypesOf(i) = TypesOf(j)
           /\ response[i] = response[j]
           /\ RecordShape(i).orders = RecordShape(j).orders
           /\ RecordShape(i).trades = RecordShape(j).trades
           /\ RecordShape(i).queued = RecordShape(j).queued
           /\ RecordShape(i).submitted = RecordShape(j).submitted

C17_Witness ==
  \E i \in Inv, j \in Inv :
    /\ Done(i) /\ Done(j)
    /\ inbox[i].body = inbox[j].body
    /\ AllDelivered(i)
    /\ Len(notifs[j]) = 2
    /\ notifs[j][1].delivery = "error"
    /\ notifs[j][2].delivery = "gone"
    /\ HasStep(i, "enqueue", TRUE)
    /\ HasStep(j, "enqueue", TRUE)
    /\ HasStep(j, "confirm", TRUE)

Submitted(i) == HasStep(i, "submit", TRUE)

\* C18: every settlement transaction carries the hash of the tradeId of a Trade
\* that the submitting invocation persisted; an invocation submits at most once;
\* the hashes of two invocations that reached the submission differ, also when
\* their payloads are equal, so every submission is a transaction of its own.
C18_TradeHashUnique ==
  /\ \A tx \in Settlements : \E i \in Inv :
       /\ Submitted(i)
       /\ tx.tradeHash = ethersId(local[i].tradeId)
       /\ \E t \in trades : t.tradeId = local[i].tradeId /\ t.orderId = local[i].orderId
  /\ \A i \in Inv : CountSteps(i, "submit") <= 1
  /\ \A i \in Inv : Submitted(i) =>
       Cardinality({tx \in Settlements : tx.tradeHash = ethersId(local[i].tradeId)}) = 1
  /\ \A i \in Inv, j \in Inv :
       (i # j /\ Attempted(i, "submit") /\ Attempted(j, "submit")) =>
         ethersId(local[i].tradeId) # ethersId(local[j].tradeId)
  /\ Cardinality(Settlements) = Cardinality({i \in Inv : Submitted(i)})

C18_Witness ==
  \E i \in Inv, j \in Inv :
    /\ i # j
    /\ inbox[i] = inbox[j]
    /\ Submitted(i) /\ Submitted(j)
    /\ Cardinality(Settlements) = 2

Separators == {"/", "-", "_"}

SeparatorsIn(pair) == {k \in 1..Len(pair) : pair[k] \in Separators}

CannotParse == "Unable to parse trading pair symbol: "

UnsupportedAsset == "Unsupported asset symbol: "

\* what the claim says of a pair with exactly one separator character, at p
OneSeparator(pair, p, r) ==
  LET left  == toUpperCase(trim(SubSeq(pair, 1, p - 1)))
      right == toUpperCase(trim(SubSeq(pair, p + 1, Len(pair))))
  IN  IF p = 1 \/ p = Len(pair)
        THEN ~r.ok /\ r.error = Err(CannotParse, pair)
      ELSE IF ~InAssetDecimals(left)
        THEN ~r.ok /\ r.error = Err(UnsupportedAsset, left)
      ELSE IF ~InAssetDecimals(right)
        THEN ~r.ok /\ r.error = Err(UnsupportedAsset, right)
      ELSE r.ok /\ r.base = left /\ r.quote = right

\* C19: for the pair of a computed order: without a separator parseTradingPair
\* fails as unparsable; with one separator it fails as unparsable when a side is
\* empty, fails with the unsupported-asset error when a side is not in the asset
\* table, and otherwise returns the two sides; whenever it succeeds both results
\* are assets of the table; BTC/USDT gives base BTC and quote USDT; and the
\* computation fails with the parser's error exactly when the parser fails.
C19_ParseTradingPair ==
  CalcDone =>
    LET pair == ToStringOf(calcIn.symbol)
        r    == parseTradingPair(pair)
        at   == SeparatorsIn(pair)
    IN  /\ at = {} => (~r.ok /\ r.error = Err(CannotParse, pair))
        /\ \A p \in at : at = {p} => OneSeparator(pair, p, r)
        /\ r.ok => (at # {} /\ InAssetDecimals(r.base) /\ InAssetDecimals(r.quote))
        /\ ~r.ok => r.error.text \in {CannotParse, UnsupportedAsset}
        /\ pair = <<"B","T","C","/","U","S","D","T">> =>
             (r.ok /\ r.base = <<"B","T","C">> /\ r.quote = <<"U","S","D","T">>)
        /\ pair = <<"B","T","C","/","U","S","D","T","/","E","T","H">> =>
             (r.ok /\ r.base = <<"B","T","C">> /\ r.quote = <<"U","S","D","T">>)
        /\ pair = <<"B","T","C","-","U","S","D","T","/","E","T","H">> =>
             (~r.ok /\ r.error = Err(UnsupportedAsset, <<"B","T","C","-","U","S","D","T">>))
        /\ ~r.ok => calcOut = [ok |-> FALSE, error |-> r.error]
        /\ calcOut.ok => (r.ok /\ calcOut.baseSymbol = r.base /\ calcOut.quoteSymbol = r.quote)

C19_Witness ==
  /\ CalcDone
  /\ ToStringOf(calcIn.symbol) = <<"E","T","H","_","U","S","D","T">>
  /\ calcOut.ok
  /\ calcOut.baseSymbol = <<"E","T","H">>
  /\ calcOut.quoteSymbol = <<"U","S","D","T">>

FixedOrder ==
  <<"orderWrite", "ORDER_RECEIVED", "tradeWrite", "compute", "submit", "confirm",
    "enrich", "enqueue", "ORDER_MATCHED">>

MatcherOrder == <<"orderWrite", "ORDER_RECEIVED", "tradeWrite", "enqueue", "ORDER_MATCHED">>

\* a log entry as a step of the fixed order: a notification counts by its type
StepKey(e) == IF e.step = "notify" THEN e.note ELSE e.step

InFixedOrder(e) == \E r \in 1..Len(FixedOrder) : FixedOrder[r] = StepKey(e)

\* the steps of the fixed order that invocation i has taken, in the order taken
Trace(i) == SelectSeq(log[i], InFixedOrder)

\* C21: every message a handler hands to a WebSocket connection carries a channel
\* field: the order events of the matcher, the error of a failed order write
\* included, carry "orders", the trade notices of the event processor carry
\* "trades" and the price messages carry "prices".
C21_EveryPayloadHasChannel ==
  /\ \A i \in Inv : \A k \in 1..Len(notifs[i]) :
       notifs[i][k].delivery # "skipped" => notifs[i][k].channel = "orders"
  /\ \A k \in 1..Len(pushes) : pushes[k].channel = "trades"
  /\ \A m \in feed.posted : m.channel = "prices"

\* C22: the steps an invocation has taken are, in this order and without a gap,
\* Order write, ORDER_RECEIVED, Trade write, computation, submission, confirmation,
\* enrichment, enqueue, ORDER_MATCHED (the plain matcher: the same without the four
\* settlement steps); every step before the last one taken was completed, and
\* succeeded unless it is the enrichment (a notification is completed when handed
\* to the connection).
C22_FixedStepOrder ==
  \A i \in Inv :
    LET order == IF inbox[i].handler = "settlement" THEN FixedOrder ELSE MatcherOrder
    IN  /\ Len(Trace(i)) <= Len(order)
        /\ \A k \in 1..Len(Trace(i)) : StepKey(Trace(i)[k]) = order[k]
        /\ \A k \in 1..(Len(Trace(i)) - 1) :
             Trace(i)[k].step \notin {"notify", "enrich"} => Trace(i)[k].ok

C22_Witness ==
  \E i \in Inv :
    /\ Done(i)
    /\ Len(Trace(i)) = Len(FixedOrder)
    /\ HasStep(i, "enrich", FALSE)
    /\ response[i].statusCode = 200

\* C23: an Order that appears in storage for the first time has status PENDING.
\* Violated: the match decision is taken before the write, and a matched order
\* is written once, as FILLED; the handlers never update an order.
C23_FirstWritePending ==
  [][\A o \in orders' :
       (\A x \in orders : x.orderId # o.orderId) => o.status = "PENDING"]_vars

AttemptedOnce == {"orderWrite", "tradeWrite", "compute", "submit", "confirm", "enrich", "enqueue"}

\* C24: an invocation has attempted the Order write, the Trade write, the
\* settlement submission, the enrichment and the enqueue (and the computation and
\* the confirmation wait) at most once each; a step that failed is the last
\* attempt of that step, and unless it is the enrichment the last step of all.
C24_AtMostOnce ==
  \A i \in Inv :
    /\ \A name \in AttemptedOnce : CountSteps(i, name) <= 1
    /\ \A k \in 1..Len(Pipeline(i)) :
         (~Pipeline(i)[k].ok /\ Pipeline(i)[k].step # "enrich") => k = Len(Pipeline(i))

C24_Witness ==
  \E i \in Inv :
    /\ Done(i)
    /\ HasStep(i, "enrich", FALSE)
    /\ HasStep(i, "enqueue", FALSE)
    /\ response[i].statusCode = 500

SettlementsOf(i) == {tx \in chain : tx.tradeHash = TradeHash(i)}

\* the status code that the results of the invocation's own steps call for
ExpectedCode(i) ==
  LET last == Pipeline(i)[Len(Pipeline(i))]
  IN  IF last.ok \/ last.step = "enrich" THEN 200
      ELSE IF last.step = "compute" THEN 400
      ELSE IF last.step \in {"submit", "confirm"} THEN 502
      ELSE 500

\* the notifications that the results of the invocation's own steps call for
ExpectedTypes(i) ==
  LET last == Pipeline(i)[Len(Pipeline(i))]
  IN  IF last.step = "orderWrite" /\ ~last.ok THEN <<"">>
      ELSE IF ~local[i].matched THEN <<"ORDER_RECEIVED", "ORDER_STORED">>
      ELSE IF last.ok \/ last.step = "enrich" THEN <<"ORDER_RECEIVED", "ORDER_MATCHED">>
      ELSE <<"ORDER_RECEIVED", "ORDER_ERROR">>

\* the records of an invocation are the ones it wrote itself
OwnRecords(i) ==
  /\ HasStep(i, "orderWrite", TRUE) =>
       OrdersOf(i) = {OrderItem(inbox[i].body, local[i].orderId, local[i].orderType,
                                local[i].status)}
  /\ HasStep(i, "tradeWrite", TRUE) =>
       \E t \in TradesOf(i) :
         /\ TradesOf(i) = {t}
         /\ [t EXCEPT !.settlementTxHash = NoText, !.settlementBlockNumber = 0]
              = TradeItem(inbox[i].body, local[i].tradeId, local[i].orderId, local[i].orderType)
         /\ t.settlementTxHash \in {NoText, local[i].receipt.hash}
  /\ \A tx \in SettlementsOf(i) :
       tx.balanceUpdates = calculateBalanceUpdates(inbox[i].body).balanceUpdates

\* a step of invocation i leaves every other invocation and its records alone
OthersUntouched(i) ==
  \A j \in Inv \ {i} :
    /\ pc'[j] = pc[j] /\ local'[j] = local[j] /\ log'[j] = log[j]
    /\ notifs'[j] = notifs[j] /\ response'[j] = response[j]
    /\ {o \in orders' : o.orderId = local[j].orderId} = OrdersOf(j)
    /\ {t \in trades' : t.orderId = local[j].orderId} = TradesOf(j)
    /\ {m \in queue' : m.orderId = local[j].orderId} = MessagesOf(j)
    /\ {tx \in chain' : tx.tradeHash = TradeHash(j)} = SettlementsOf(j)

\* C25: in every interleaving, the orderIds and tradeIds of different invocations
\* differ; the records of an invocation are those it wrote itself; once it has
\* ended, its status code and notifications are the ones its own step results
\* call for (the same function whether it ran alone or beside another
\* invocation), and its settlement call carries the balance updates of its own
\* order; and no step of an invocation changes the state or the records of another.
C25_ConcurrentInvocationsIsolated ==
  /\ [](\A i \in Inv :
         /\ \A j \in Inv \ {i} :
              /\ local[i].orderId # NoId => local[i].orderId # local[j].orderId
              /\ local[i].tradeId # NoId => local[i].tradeId # local[j].tradeId
         /\ OwnRecords(i)
         /\ (Done(i) /\ Attempted(i, "orderWrite")) =>
              /\ response[i].statusCode = ExpectedCode(i)
              /\ TypesOf(i) = ExpectedTypes(i))
  /\ [][\A i \in Inv : pc'[i] # pc[i] => OthersUntouched(i)]_vars

C25_Witness ==
  \E i \in Inv, j \in Inv :
    /\ i # j
    /\ Done(i) /\ pc[j] = "enqueue"
    /\ inbox[i].body.symbol = inbox[j].body.symbol
    /\ HasStep(i, "enrich", TRUE) /\ HasStep(j, "enrich", TRUE)
    /\ local[i].receipt.blockNumber > local[j].receipt.blockNumber
    /\ response[i].statusCode = 200

HasReference(t) == t.settlementTxHash # NoText \/ t.settlementBlockNumber # 0

\* C26: a Trade that carries settlementTxHash or settlementBlockNumber belongs to an
\* invocation whose settlement was confirmed; the two values are those of that
\* invocation's receipt, and the transaction of the trade's hash is confirmed in
\* that block; an invocation updates its trade at most once, and a step that
\* changes a stored trade finds it without a reference and changes nothing but
\* the two attributes.
C26_TradeSettlementReference ==
  /\ [](/\ \A t \in trades : HasReference(t) =>
             \E i \in Inv :
               /\ t.tradeId = local[i].tradeId /\ t.orderId = local[i].orderId
               /\ HasStep(i, "confirm", TRUE) /\ HasStep(i, "enrich", TRUE)
               /\ t.settlementTxHash = local[i].receipt.hash
               /\ t.settlementBlockNumber = local[i].receipt.blockNumber
               /\ \E tx \in chain :
                    /\ tx.tradeHash = ethersId(t.tradeId)
                    /\ tx.state = "confirmed"
                    /\ tx.blockNumber = t.settlementBlockNumber
                    /\ TxHash(tx.tradeHash) = t.settlementTxHash
        /\ \A i \in Inv : CountSteps(i, "enrich") <= 1)
  /\ [][\A t \in trades : t \notin trades' =>
          /\ ~HasReference(t)
          /\ \E u \in trades' :
               /\ HasReference(u)
               /\ [u EXCEPT !.settlementTxHash = NoText, !.settlementBlockNumber = 0] = t]_vars

C26_Witness ==
  \E i \in Inv, j \in Inv, t \in trades, u \in trades :
    /\ i # j
    /\ t.tradeId = local[i].tradeId /\ u.tradeId = local[j].tradeId
    /\ t.symbol = u.symbol
    /\ HasReference(t) /\ ~HasReference(u)
    /\ HasStep(j, "enrich", FALSE)
    /\ t.settlementBlockNumber = 2

\* C27: every message of the settling handler on the queue belongs to an
\* invocation that persisted its Trade and whose settlement was confirmed; it
\* carries the hash of the trade, the receipt's transaction hash and block number,
\* and the four balance updates of the confirmed transaction; an invocation whose
\* settlement failed or was not attempted has no message on the queue.
C27_QueuedTradeIsSettled ==
  /\ \A m \in queue : \E i \in Inv :
       /\ m.orderId = local[i].orderId /\ m.tradeId = local[i].tradeId
       /\ HasStep(i, "tradeWrite", TRUE)
       /\ \E t \in trades : t.tradeId = m.tradeId /\ t.orderId = m.orderId
       /\ inbox[i].handler = "settlement" =>
            /\ HasStep(i, "confirm", TRUE)
            /\ m.settlement.tradeHash = ethersId(m.tradeId)
            /\ m.settlement.txHash = local[i].receipt.hash
            /\ Len(m.balanceUpdates) = 4
            /\ \E tx \in chain :
                 /\ tx.tradeHash = m.settlement.tradeHash
                 /\ tx.state = "confirmed"
                 /\ tx.blockNumber = m.settlement.blockNumber
                 /\ tx.balanceUpdates = m.balanceUpdates
  /\ \A i \in Inv :
       (inbox[i].handler = "settlement" /\ ~HasStep(i, "confirm", TRUE)) => MessagesOf(i) = {}

C27_Witness ==
  \E i \in Inv, j \in Inv :
    /\ i # j
    /\ inbox[i].handler = "settlement" /\ inbox[j].handler = "settlement"
    /\ MessagesOf(i) # {}
    /\ HasStep(j, "confirm", FALSE)
    /\ Done(j)

\* C28: every Order stored as FILLED and every stored Trade has a symbol that
\* parseTradingPair accepts.
\* Violated: validation only requires a symbol; the order and the trade are
\* written before the settling handler parses the pair, and the plain matcher
\* never parses it.
C28_StoredSymbolsParse ==
  /\ \A o \in orders : o.status = "FILLED" => parseTradingPair(o.symbol).ok
  /\ \A t \in trades : parseTradingPair(t.symbol).ok

LastNotification(i) == notifs[i][Len(notifs[i])]

\* C29: an invocation that has ended handed at least one notification to the
\* connection; its status code is 200 exactly when the last one is ORDER_STORED
\* or ORDER_MATCHED, and is a 4xx or 5xx code exactly when the last one reports
\* an error (status ERROR); ORDER_MATCHED goes with matched = true in the
\* response, ORDER_STORED with matched = false.
C29_StatusCodeAgreesWithNotification ==
  \A i \in Inv : Done(i) =>
    /\ Len(notifs[i]) >= 1
    /\ response[i].statusCode \in {200} \cup (400..599)
    /\ response[i].statusCode = 200 <=>
         LastNotification(i).type \in {"ORDER_STORED", "ORDER_MATCHED"}
    /\ response[i].statusCode \in 400..599 <=> LastNotification(i).status = "ERROR"
    /\ LastNotification(i).type = "ORDER_MATCHED" => response[i].matched
    /\ LastNotification(i).type = "ORDER_STORED" => ~response[i].matched

C29_Witness ==
  \E i \in Inv :
    /\ Done(i)
    /\ response[i].statusCode = 502
    /\ LastNotification(i).type = "ORDER_ERROR"
    /\ LastNotification(i).delivery = "gone"

\* what the event processor published and pushed for record r
PublishedOf(r) == SelectSeq(topic, LAMBDA m : m.rec = r)

PushedOf(r) == SelectSeq(pushes, LAMBDA m : m.by = "eventProcessor" /\ m.rec = r)

\* record r has been dealt with: the loop has gone past it
Processed(r) == r < ep.rec \/ (r = ep.rec /\ ep.phase = "done")

\* the pushes of record r went to the first n connections its scan returned, one
\* each, in order
PushedToFirst(r, n) ==
  /\ Len(PushedOf(r)) = n
  /\ \A k \in 1..n :
       /\ PushedOf(r)[k].to = ep.scans[r][k]
       /\ PushedOf(r)[k].type = "TRADE"
       /\ PushedOf(r)[k].body = ep.records[r]

\* C30: for each queue record of a batch the event processor publishes the trade
\* to the topic once and then pushes it to every connection the scan of the
\* table returns; a failed push stops neither the pushes to the remaining
\* connections nor the remaining records; a failed publish or scan ends the
\* invocation, and the remaining records are not processed.
C30_RecordsPublishedThenPushed ==
  /\ [](\A r \in 1..Len(ep.records) :
          /\ Len(PublishedOf(r)) <= 1
          /\ Len(PublishedOf(r)) = 1 =>
               PublishedOf(r)[1].message = TradeMessage(ep.records[r])
          /\ Len(PushedOf(r)) >= 1 => Len(PublishedOf(r)) = 1 /\ Len(ep.scans) >= r
          /\ Processed(r) =>
               /\ Len(PublishedOf(r)) = 1
               /\ PushedToFirst(r, Len(ep.scans[r]))
          /\ r = ep.rec /\ ep.phase = "push" => PushedToFirst(r, ep.k - 1)
          /\ r > ep.rec => Len(PublishedOf(r)) = 0 /\ Len(PushedOf(r)) = 0
          /\ ep.phase = "done" => Processed(r))
  /\ [][/\ ep.phase = "failed" => UNCHANGED <<ep, topic, pushes>>
        /\ ep.phase # "failed" /\ ep'.phase = "failed" =>
             ep.phase \in {"publish", "scan"} /\ UNCHANGED <<topic, pushes>>
        /\ ep.phase = "push" => ep'.phase # "failed"
        /\ ep.phase = "scan" /\ ep' # ep /\ ep'.phase # "failed" =>
             ep'.scans = Append(ep.scans, ScanItems(connections))]_vars

C30_Witness ==
  /\ ep.phase = "done"
  /\ Len(ep.records) = 2
  /\ ep.scans = << <<1, 2>>, <<1, 2>> >>
  /\ Len(topic) = 2
  /\ Len(pushes) = 4
  /\ pushes[1].delivery = "error"
  /\ pushes[2].delivery = "sent"
  /\ pushes[3].delivery = "gone"

=============================================================================
